---- MODULE Spec2Model ----
(***************************************************************************)
(* Verdict store and analysis orchestrator of the link-trust backend       *)
(* (backend/src/services/analyzer.ts, backend/src/db/migrations).          *)
(*                                                                         *)
(* Scores and confidences are fixed-point numbers: a value x in [0,1] is   *)
(* the integer x * Unit, which makes the penalties, the 60/40 blends and   *)
(* the thresholds 0.2, 0.3, 0.4, 0.69, 0.7, 0.8, 0.85 exact.  A safety      *)
(* rating r in [0,100] is the integer 100 * r.  Time is counted in hours.  *)
(***************************************************************************)
EXTENDS Integers, Sequences, FiniteSets, TLC

\* ------------------------------------------------------------------ bounds
NumCalls == 2
MaxTime == 25
TickSteps == {12, 13}
MaxLinks == 3
MaxSlashes == 2
MaxBatch == 2
NumAnalyses == 2
MaxStr == 3

\* --------------------------------------------------------- program constants
CACHE_TTL_HOURS == 24
\* CACHE_TTL and OLLAMA_CHECK_INTERVAL of ollama.ts, in minutes
CACHE_TTL == 12 * 60
OLLAMA_CHECK_INTERVAL == 5

NULL == "null"
NullNum == -1

\* --------------------------------------------------------------------- URLs
\* A URL is [valid, scheme, host, path, hash]; host is a sequence of labels,
\* path a sequence of one-character strings, hash "" when there is none.
MkUrl(scheme, host, path, hash) ==
  [valid |-> TRUE, scheme |-> scheme, host |-> host, path |-> path, hash |-> hash]

\* new URL(url): an empty path of a special-scheme URL is serialised as "/".
ParseUrl(u) == [u EXCEPT !.path = IF u.path = << >> THEN <<"/">> ELSE u.path]

\* Variant that keeps the trailing slash.
normalizeUrlKeepSlash(url) ==
  IF ~url.valid THEN url ELSE [ParseUrl(url) EXCEPT !.hash = ""]

normalizeUrl(url) ==
  IF ~url.valid THEN url
  ELSE LET u == ParseUrl(url)
           p == u.path
       IN [u EXCEPT !.hash = "",
                    !.path = IF p[Len(p)] = "/" /\ Len(p) > 1
                             THEN SubSeq(p, 1, Len(p) - 1) ELSE p]

ShopHost == <<"shop", "io">>
BlogHost == <<"blog", "io">>

HrefA == MkUrl("https", ShopHost, <<"/", "a">>, "")
HrefASlash == MkUrl("https", ShopHost, <<"/", "a", "/">>, "")
HrefAFrag == MkUrl("https", ShopHost, <<"/", "a">>, "top")
HrefB == MkUrl("https", BlogHost, << >>, "")

StoreHrefs == {HrefA, HrefASlash, HrefB}

\* An absent (undefined) URL argument.
NoUrl == [valid |-> FALSE, scheme |-> "", host |-> << >>, path |-> << >>, hash |-> ""]

\* ------------------------------------------------------------- fixed point
Unit == 100 * 100
Pct(n) == n * 100
Min(a, b) == IF a < b THEN a ELSE b
Max(a, b) == IF a > b THEN a ELSE b

\* --------------------------------------------------------------- heuristics
\* Domains are sequences of labels.  The three sets hold the entries of the
\* source sets that the modelled hosts can match, and a few more.
KNOWN_SAFE_DOMAINS ==
  {<<"google", "com">>, <<"github", "com">>, <<"t", "co">>, <<"youtu", "be">>,
   <<"microsoft", "com">>, <<"aws", "amazon", "com">>, <<"edu">>, <<"gov">>}

SUSPICIOUS_TLDS == {"tk", "ml", "ga", "cf", "gq", "xyz", "top", "click", "download", "stream"}

URL_SHORTENERS ==
  {<<"bit", "ly">>, <<"tinyurl", "com">>, <<"t", "co">>, <<"goo", "gl">>, <<"ow", "ly">>,
   <<"is", "gd">>, <<"buff", "ly">>, <<"short", "link">>, <<"cutt", "ly">>,
   <<"rebrand", "ly">>, <<"tiny", "cc">>}

\* Labels that contain "xn--".
PunycodeLabels == {"xn--pple"}

\* Labels shorter than three characters.
ShortLabels == {"t", "x", "go", "is", "ow"}

\* domainParts.slice(-2).join('.')
BaseDomain(domain) ==
  IF Len(domain) >= 2 THEN SubSeq(domain, Len(domain) - 1, Len(domain)) ELSE domain

\* Variant that matches TLD-only entries only.
isTrustedDomainTldOnly(domain) ==
  <<domain[Len(domain)]>> \in KNOWN_SAFE_DOMAINS

isTrustedDomain(domain) ==
  \/ domain \in KNOWN_SAFE_DOMAINS
  \/ (Len(domain) >= 2 /\ BaseDomain(domain) \in KNOWN_SAFE_DOMAINS)
  \/ (Len(domain) >= 1 /\ <<domain[Len(domain)]>> \in KNOWN_SAFE_DOMAINS)

\* Link texts: a plain anchor text, and one that carries a marker of
\* EXTENSION_MARKER_PATTERNS ("[SAFE] ...").
hasExtensionMarker(text) == text = "marked"

\* url.pathname.split('/').filter(p => p.length > 0).length
PathDepth(path) ==
  Cardinality({i \in 1..Len(path) : path[i] # "/" /\ (i = 1 \/ path[i - 1] = "/")})

Append2(seq, cond, tag) == IF cond THEN Append(seq, tag) ELSE seq

\* Variant that tests for plain http only.
NotHttpsHttpOnly(url) == url.scheme = "http"

\* url.protocol !== 'https:'
NotHttps(url) == url.scheme # "https"

\* Variant that looks the full hostname up only.
isShortenerExact(domain, baseDomain) == domain \in URL_SHORTENERS

\* URL_SHORTENERS.has(domain) || URL_SHORTENERS.has(baseDomain)
isShortener(domain, baseDomain) ==
  domain \in URL_SHORTENERS \/ baseDomain \in URL_SHORTENERS

\* Variant that tests the first label only.
hasPunycodeFirstLabel(domain) == domain[1] \in PunycodeLabels

\* domain.includes('xn--')
hasPunycode(domain) == \E k \in 1..Len(domain) : domain[k] \in PunycodeLabels

\* Variant that looks the full hostname up only.
isKnownSafeExact(domain, baseDomain) == domain \in KNOWN_SAFE_DOMAINS

\* KNOWN_SAFE_DOMAINS.has(domain) || KNOWN_SAFE_DOMAINS.has(baseDomain) || false
isKnownSafe(domain, baseDomain) ==
  domain \in KNOWN_SAFE_DOMAINS \/ baseDomain \in KNOWN_SAFE_DOMAINS

\* The checks of calculateHeuristics that the link model can express, in
\* source order; an unparsable href yields the single issue invalid_url.
calculateHeuristics(link) ==
  IF ~link.href.valid
  THEN [issues |-> <<"invalid_url">>,
        flags |-> [hasNoopener |-> FALSE, isKnownSafe |-> FALSE,
                   hasValidSSL |-> FALSE, hasValidDomain |-> FALSE]]
  ELSE
    LET url == ParseUrl(link.href)
        domain == url.host
        baseDomain == BaseDomain(domain)
        i1 == Append2(<< >>, NotHttps(url), "no_https")
        i2 == Append2(i1, isShortener(domain, baseDomain), "short_url")
        i3 == Append2(i2, hasPunycode(domain), "punycode")
        i4 == Append2(i3, domain[Len(domain)] \in SUSPICIOUS_TLDS, "suspicious_tld")
        i5a == Append2(i4, PathDepth(url.path) > 5, "deep_path")
        i5 == Append2(i5a, Len(domain) = 2 /\ domain[1] \in ShortLabels, "very_short_domain")
        hasNoopener == link.rel = "noopener"
        i6 == Append2(i5, link.target = "_blank" /\ ~hasNoopener, "target_blank_without_noopener")
        i7 == Append2(i6, link.download /\ Len(i6) > 0, "download_attribute")
    IN [issues |-> i7,
        flags |-> [hasNoopener |-> hasNoopener,
                   isKnownSafe |-> isKnownSafe(domain, baseDomain),
                   hasValidSSL |-> url.scheme = "https",
                   hasValidDomain |-> Len(domain) >= 2]]

\* ---------------------------------------------------------- external checks
\* Results of one provider call.
Unconfigured == [safe |-> TRUE, confidence |-> 0, details |-> FALSE, settled |-> TRUE]
Clean(conf) == [safe |-> TRUE, confidence |-> conf, details |-> TRUE, settled |-> TRUE]
Threat(conf) == [safe |-> FALSE, confidence |-> conf, details |-> TRUE, settled |-> TRUE]
ProviderRejected == [safe |-> TRUE, confidence |-> 0, details |-> FALSE, settled |-> FALSE]

TrustedResult ==
  [safe |-> TRUE, confidence |-> Unit, sources |-> <<Clean(Unit)>>, threatCount |-> 0]

\* Variant without the cap.
capConfidenceNone(confidence) == confidence

\* Math.min(0.95, confidence)
capConfidence(confidence) == Min(Pct(95), confidence)

\* checkExternalServices on the settled results of the four provider calls.
checkExternalServices(link, checks) ==
  IF isTrustedDomain(link.targetDomain) THEN TrustedResult
  ELSE
    LET IsFulfilled(r) == r.settled
        results == SelectSeq(checks, IsFulfilled)
        IsThreat(r) == ~r.safe /\ r.confidence > Pct(50)
        IsSafe(r) == r.safe /\ r.confidence > Pct(50)
        IsConfident(r) == r.confidence > Pct(50)
        threatCount == Len(SelectSeq(results, IsThreat))
        safeCount == Len(SelectSeq(results, IsSafe))
        totalConfident == Len(SelectSeq(results, IsConfident))
        confidence == IF totalConfident > 0
                      THEN (safeCount * Pct(90)) \div totalConfident
                           + (IF threatCount > 0 THEN 0 ELSE Pct(10))
                      ELSE Pct(50)
    IN [safe |-> threatCount = 0,
        confidence |-> capConfidence(confidence),
        sources |-> results,
        threatCount |-> threatCount]

\* ------------------------------------------------------------- trust score
Penalty(issue) ==
  CASE issue = "PHISHING_RISK" -> Pct(50)
    [] issue = "short_url" -> Pct(12)
    [] issue = "no_https" -> Pct(20)
    [] issue = "punycode" -> Pct(18)
    [] issue = "suspicious_tld" -> Pct(15)
    [] issue = "ip_address" -> Pct(15)
    [] issue = "suspicious_params" -> Pct(10)
    [] issue = "encoded_url" -> Pct(8)
    [] issue = "invalid_url" -> Pct(25)
    [] issue = "external_threats" -> Pct(30)
    [] OTHER -> 0

RECURSIVE SumPenalties(_)
SumPenalties(issues) ==
  IF issues = << >> THEN 0 ELSE Penalty(issues[1]) + SumPenalties(Tail(issues))

HeuristicScore(h) ==
  Pct(50) - SumPenalties(h.issues)
  + (IF h.flags.hasNoopener THEN Pct(5) ELSE 0)
  + (IF h.flags.isKnownSafe THEN Pct(20) ELSE 0)
  + (IF h.flags.hasValidSSL THEN Pct(10) ELSE 0)
  + (IF h.flags.hasValidDomain THEN Pct(5) ELSE 0)

\* The optional argument externalResult is absent.
NoExternalResult == [safe |-> TRUE, confidence |-> NullNum, sources |-> << >>, threatCount |-> 0]

\* The score before the final clamp.
BlendedScore(h, ext) ==
  LET s0 == HeuristicScore(h)
      s1 == IF ~ext.safe /\ ext.confidence > Pct(70) THEN Min(s0, Pct(30))
            ELSE IF ext.safe /\ ext.confidence > Pct(70) THEN Min(Unit, s0 + Pct(15))
            ELSE s0
      s2 == (s1 * 6 + (IF ext.safe THEN ext.confidence ELSE Unit - ext.confidence) * 4) \div 10
  IN IF ext = NoExternalResult THEN s0 ELSE s2

\* Variant without the final clamp.
calculateTrustScoreUnclamped(h, ext) == BlendedScore(h, ext)

calculateTrustScore(h, ext) == Max(0, Min(Unit, BlendedScore(h, ext)))

categorizeTrust(score) ==
  IF score >= Pct(70) THEN "SAFE"
  ELSE IF score >= Pct(40) THEN "SUSPICIOUS" ELSE "DANGEROUS"

\* ----------------------------------------------------------------- verdicts
\* The verdicts that the callers of storeScanResult hand to it: a heuristic
\* verdict confirmed by the external services (confidence 0.95), a verdict
\* refined by the AI service (confidence 0.85), a verdict with a GPT summary.
\* Scores and confidences are in Unit-ths.
HeurWrite ==
  [verdict |-> [trustScore |-> 3600, category |-> "SUSPICIOUS",
                issues |-> <<"suspicious_tld">>,
                gptSummary |-> NULL, recommendation |-> NULL,
                riskTags |-> NULL, confidence |-> 9500],
   ollamaResult |-> NULL]

AIWrite ==
  [verdict |-> [trustScore |-> 1800, category |-> "DANGEROUS",
                issues |-> <<"suspicious_tld">>,
                gptSummary |-> "ai_summary", recommendation |-> "AVOID",
                riskTags |-> "high_risk", confidence |-> 8500],
   ollamaResult |-> "ollama_json"]

GptWrite ==
  [verdict |-> [trustScore |-> 4800, category |-> "SAFE",
                issues |-> << >>,
                gptSummary |-> "gpt_summary", recommendation |-> "gpt_rec",
                riskTags |-> "gpt_tags", confidence |-> 9000],
   ollamaResult |-> NULL]

Writes == {HeurWrite, AIWrite, GptWrite}

\* ------------------------------------------------------------------- state
VARIABLES
  link_scans,     \* rows of table link_scans
  nextId,         \* next row id
  storageLocks,   \* url -> call that owns the in-flight storage promise
  now,            \* clock, hours
  pc,             \* call -> position in storeScanResult
  arg,            \* call -> [href, w]
  cacheCutoff,    \* call -> cutoff computed at entry
  existingId,     \* call -> id of the row the SELECT returned
  owner,          \* call -> call whose promise it awaits
  result,         \* call -> how the call ended
  \* one call of analyzeLinksWithAI or of analyzeLinks
  links,          \* argument links
  userId,         \* argument userId, NULL when absent
  userPlan,       \* column plan of the row of userId in table users
  allowAIWithoutAuth, \* process.env.ALLOW_AI_WITHOUT_AUTH === 'true'
  priorityUrl,    \* argument priorityUrl, NoUrl when absent
  onUpdate,       \* an onUpdate callback was passed
  ollamaCache,    \* keys of the fresh entries of ollamaCache
  apc,            \* position of the call: idle, start, cache, external, returned
  linksToAnalyze, \* positions of the links that the cache did not serve
  externalCheckResults, \* position -> aggregated result of step 2
  verdicts,       \* heap of verdict objects, one per position
  analyses,       \* position -> verdict object it refers to, 0 for a hole
  queue,          \* priorityItem (if any) followed by regularItems
  prio,           \* queue[1] is priorityItem
  stage,          \* queue index -> queued, plan, model, ai_resume, loop_resume,
                  \*   loop_reject, done, failed
  aiResult,       \* queue index -> result of analyzeSuspiciousLink
  microtasks,     \* promise jobs, in order
  aiCalls,        \* positions of the links passed to analyzeSuspiciousLink, in order
  updates,        \* onUpdate calls [index, verdict], in order
  netCalls,       \* positions whose URL was sent to the external providers
  storeReqs,      \* hrefs handed to storeScanResult, in order
  observed,       \* the array as the awaiting caller receives it
  \* one call of a synchronous function, or of a single lookup
  fn,             \* [name, arg]: the function called and its arguments
  ret,            \* << >> before the call returns, then <<value>>
  \* one call of analyzeLinks
  failedWrites,   \* indices of storeReqs whose storeScanResult promise rejected
  \* calls of analyzeSuspiciousLink and the module state of ollama.ts
  ollamaAvailable,  \* NULL, "true" or "false"
  ollamaLastCheck,  \* minute of the last recorded check
  ollamaEntries,    \* the Map ollamaCache: normalized URL -> [result, timestamp]
  acall,            \* call -> [pc, href, trustScore, result, how]
  probes,           \* minutes at which isOllamaAvailable called checkOllamaHealth
  minute            \* clock, minutes

storeVars == <<link_scans, nextId, storageLocks, now, pc, arg, cacheCutoff,
               existingId, owner, result>>

inputVars == <<links, userId, userPlan, allowAIWithoutAuth, priorityUrl, onUpdate, ollamaCache>>

aiVars == <<inputVars, apc, linksToAnalyze, externalCheckResults, verdicts, analyses, queue, prio, stage, aiResult,
            microtasks, aiCalls, updates, netCalls, storeReqs, observed>>

pureVars == <<fn, ret>>

linksVars == <<failedWrites>>

ollamaVars == <<ollamaAvailable, ollamaLastCheck, ollamaEntries, acall, probes, minute>>

otherVars == <<pureVars, linksVars, ollamaVars>>

vars == <<storeVars, aiVars, otherVars>>

Calls == 1..NumCalls
NoCall == 0
NoArg == [href |-> NoUrl, w |-> NULL]
NoFn == [name |-> "none"]

\* ---------------------------------------------------------- table semantics
LiveAt(r, cutoff) == r.created_at > cutoff

\* SELECT ... WHERE url = $1 AND created_at > $2 ORDER BY created_at DESC LIMIT 1
SelectRecent(db, url, cutoff) ==
  LET hits == {r \in db : r.url = url /\ LiveAt(r, cutoff)}
  IN IF hits = {} THEN {}
     ELSE {CHOOSE r \in hits : \A q \in hits : q.created_at <= r.created_at}

\* CONSTRAINT unique_url_recent UNIQUE (url)
UniqueViolation(db, url) == \E r \in db : r.url = url

\* Variant that assigns the parameter.
CoalesceAssign(new, old) == new

Coalesce(new, old) == IF new = NULL THEN old ELSE new
CoalesceNum(new, old) == IF new = NullNum THEN old ELSE new

\* verdict.confidence || null
OrNullNum(x) == IF x = 0 THEN NullNum ELSE x

\* The SET list shared by the three UPDATE forms.
MergeRow(r, w) ==
  [r EXCEPT !.detected_issues = w.verdict.issues,
            !.trust_score = w.verdict.trustScore,
            !.category = w.verdict.category,
            !.gpt_summary = Coalesce(w.verdict.gptSummary, r.gpt_summary),
            !.ollama_analysis = Coalesce(w.ollamaResult, r.ollama_analysis),
            !.recommendation = Coalesce(w.verdict.recommendation, r.recommendation),
            !.risk_tags = Coalesce(w.verdict.riskTags, r.risk_tags),
            !.confidence = CoalesceNum(OrNullNum(w.verdict.confidence), r.confidence)]

\* src is history: the href of the call that inserted the row.
NewRow(id, url, src, w, t) ==
  [id |-> id, url |-> url, src |-> src, created_at |-> t,
   detected_issues |-> w.verdict.issues,
   trust_score |-> w.verdict.trustScore,
   category |-> w.verdict.category,
   gpt_summary |-> w.verdict.gptSummary,
   ollama_analysis |-> w.ollamaResult,
   recommendation |-> w.verdict.recommendation,
   risk_tags |-> w.verdict.riskTags,
   confidence |-> OrNullNum(w.verdict.confidence)]

\* UPDATE link_scans SET ... WHERE id = $13
UpdateById(db, id, w) ==
  {IF r.id = id THEN MergeRow(r, w) ELSE r : r \in db}

\* UPDATE link_scans SET ... WHERE url = $13 AND created_at > NOW() - 24 hours
UpdateRecentByUrl(db, url, w, t) ==
  {IF r.url = url /\ LiveAt(r, t - CACHE_TTL_HOURS) THEN MergeRow(r, w) ELSE r : r \in db}

\* INSERT ... ON CONFLICT (url) DO UPDATE SET ... WHERE link_scans.created_at > NOW() - 24 hours
InsertOnConflict(db, id, url, src, w, t) ==
  IF UniqueViolation(db, url)
  THEN UpdateRecentByUrl(db, url, w, t)
  ELSE db \cup {NewRow(id, url, src, w, t)}

\* Reconstruct verdict from database
RowVerdict(r) ==
  [trustScore |-> r.trust_score, category |-> r.category,
   issues |-> r.detected_issues,
   gptSummary |-> r.gpt_summary, recommendation |-> r.recommendation,
   riskTags |-> r.risk_tags,
   confidence |-> IF r.confidence = NullNum THEN 0 ELSE r.confidence]

\* getCachedScans at time t: the url -> verdict map of the most recent row
\* per url among the rows newer than the cutoff; empty when the query fails.
getCachedScans(db, urls, t, res) ==
  LET normalizedUrls == {normalizeUrl(u) : u \in urls}
      cutoff == t - CACHE_TTL_HOURS
      rows == {r \in db : r.url \in normalizedUrls /\ LiveAt(r, cutoff)}
      hitUrls == IF res = "ok" THEN {r.url : r \in rows} ELSE {}
  IN [u \in hitUrls |->
        RowVerdict(CHOOSE r \in rows : r.url = u /\
                     \A q \in rows : q.url = u => q.created_at <= r.created_at)]

shouldUpdate(existing, w) ==
  \/ w.ollamaResult # NULL
  \/ (w.verdict.gptSummary # NULL /\ existing.gpt_summary = NULL)
  \/ (w.verdict.confidence # 0
      /\ w.verdict.confidence > (IF existing.confidence = NullNum THEN 0 ELSE existing.confidence))

\* ------------------------------------------------------------------- Init
\* No call of analyzeLinksWithAI is under way.
NoAnalysis ==
  /\ links = << >>
  /\ userId = NULL
  /\ userPlan = NULL
  /\ allowAIWithoutAuth = FALSE
  /\ priorityUrl = NoUrl
  /\ onUpdate = FALSE
  /\ ollamaCache = {}
  /\ apc = "idle"
  /\ linksToAnalyze = {}
  /\ externalCheckResults = << >>
  /\ verdicts = << >>
  /\ analyses = << >>
  /\ queue = << >>
  /\ prio = FALSE
  /\ stage = << >>
  /\ aiResult = << >>
  /\ microtasks = << >>
  /\ aiCalls = << >>
  /\ updates = << >>
  /\ netCalls = {}
  /\ storeReqs = << >>
  /\ observed = << >>

\* ollama.ts has been loaded and analyzeSuspiciousLink has not been called.
NoOllama ==
  /\ ollamaAvailable = NULL
  /\ ollamaLastCheck = 0
  /\ ollamaEntries = << >>
  /\ acall = << >>
  /\ probes = << >>
  /\ minute = 0

\* No function call is under way.
NoPureCall == fn = NoFn /\ ret = << >> /\ failedWrites = {} /\ NoOllama

\* No storeScanResult call has been made and the table is empty.
NoStore ==
  /\ link_scans = {}
  /\ nextId = 1
  /\ storageLocks = [u \in {} |-> NoCall]
  /\ now = 0
  /\ pc = [c \in Calls |-> "idle"]
  /\ arg = [c \in Calls |-> NoArg]
  /\ cacheCutoff = [c \in Calls |-> 0]
  /\ existingId = [c \in Calls |-> 0]
  /\ owner = [c \in Calls |-> NoCall]
  /\ result = [c \in Calls |-> "pending"]

Init == NoStore /\ NoAnalysis /\ NoPureCall

Url(c) == normalizeUrl(arg[c].href)

\* Variant that leaves the entry in the map.
UnlockNever(u) == storageLocks

Unlock(u) == [v \in (DOMAIN storageLocks) \ {u} |-> storageLocks[v]]
Lock(u, c) == [v \in (DOMAIN storageLocks) \cup {u} |-> IF v = u THEN c ELSE storageLocks[v]]

\* ------------------------------------------------------- storeScanResult
\* Results of pool.query: success, rejection, rejection with code 23505.
QueryOutcomes == {"ok", "error"}
UpsertOutcomes == {"ok", "error", "unique_violation"}

\* The storage promise of a call has rejected.
Rejected(c) == result[c] \in {"rejected", "joined_rejected"}

\* finally { storageLocks.delete(normalizedUrl) }, then the promise settles:
\* "stored" a write statement ran, "unchanged" shouldUpdate was false,
\* "failed" a query error was logged, "rejected" the promise rejected.
Finish(c, how) ==
  /\ pc' = [pc EXCEPT ![c] = "done"]
  /\ result' = [result EXCEPT ![c] = how]
  /\ storageLocks' = Unlock(Url(c))
  /\ cacheCutoff' = [cacheCutoff EXCEPT ![c] = 0]
  /\ existingId' = [existingId EXCEPT ![c] = 0]

\* Entry: an in-flight storage for the URL is awaited, otherwise the call
\* issues its SELECT and registers its promise in storageLocks.
\* (Calls are interchangeable; they are started in the order of their numbers.)
StoreCall(c, href, w) ==
  /\ pc[c] = "idle"
  /\ IF c = 1 THEN TRUE ELSE pc[c - 1] # "idle"
  /\ arg' = [arg EXCEPT ![c] = [href |-> href, w |-> w]]
  /\ LET u == normalizeUrl(href)
     IN IF u \in DOMAIN storageLocks
        THEN /\ pc' = [pc EXCEPT ![c] = "waiting"]
             /\ owner' = [owner EXCEPT ![c] = storageLocks[u]]
             /\ UNCHANGED <<storageLocks, cacheCutoff>>
        ELSE /\ pc' = [pc EXCEPT ![c] = "select"]
             /\ cacheCutoff' = [cacheCutoff EXCEPT ![c] = now - CACHE_TTL_HOURS]
             /\ storageLocks' = Lock(u, c)
             /\ UNCHANGED owner
  /\ UNCHANGED <<link_scans, nextId, now, existingId, result>>
  /\ UNCHANGED <<aiVars, otherVars>>

\* await existingStorage; return
WaiterResume(c) ==
  /\ pc[c] = "waiting"
  /\ pc[owner[c]] = "done"
  /\ pc' = [pc EXCEPT ![c] = "done"]
  /\ result' = [result EXCEPT ![c] = IF Rejected(owner[c]) THEN "joined_rejected" ELSE "joined"]
  /\ UNCHANGED <<link_scans, nextId, storageLocks, now, arg, cacheCutoff, existingId, owner>>
  /\ UNCHANGED <<aiVars, otherVars>>

\* The SELECT of a recent row returns.
SelectDone(c, res) ==
  /\ pc[c] = "select"
  /\ IF res = "ok"
     THEN LET rows == SelectRecent(link_scans, Url(c), cacheCutoff[c])
          IN IF rows # {}
             THEN LET existing == CHOOSE r \in rows : TRUE
                  IN IF shouldUpdate(existing, arg[c].w)
                     THEN /\ pc' = [pc EXCEPT ![c] = "update"]
                          /\ existingId' = [existingId EXCEPT ![c] = existing.id]
                          /\ UNCHANGED <<result, storageLocks, cacheCutoff>>
                     ELSE Finish(c, "unchanged")
             ELSE /\ pc' = [pc EXCEPT ![c] = "insert"]
                  /\ UNCHANGED <<existingId, result, storageLocks, cacheCutoff>>
     ELSE Finish(c, "failed")
  /\ UNCHANGED <<link_scans, nextId, now, arg, owner>>
  /\ UNCHANGED <<aiVars, otherVars>>

\* UPDATE ... WHERE id = existing.id returns.
UpdateDone(c, res) ==
  /\ pc[c] = "update"
  /\ IF res = "ok"
     THEN /\ link_scans' = UpdateById(link_scans, existingId[c], arg[c].w)
          /\ Finish(c, "stored")
     ELSE /\ Finish(c, "failed")
          /\ UNCHANGED link_scans
  /\ UNCHANGED <<nextId, now, arg, owner>>
  /\ UNCHANGED <<aiVars, otherVars>>

\* INSERT ... ON CONFLICT (url) DO UPDATE ... returns.
InsertDone(c, res) ==
  /\ pc[c] = "insert"
  /\ IF res = "ok"
     THEN /\ link_scans' = InsertOnConflict(link_scans, nextId, Url(c), arg[c].href, arg[c].w, now)
          /\ nextId' = nextId + 1
          /\ Finish(c, "stored")
     ELSE /\ UNCHANGED <<link_scans, nextId>>
          /\ IF res = "unique_violation"
             THEN /\ pc' = [pc EXCEPT ![c] = "fb_update"]
                  /\ UNCHANGED <<result, storageLocks, cacheCutoff, existingId>>
             ELSE Finish(c, "failed")
  /\ UNCHANGED <<now, arg, owner>>
  /\ UNCHANGED <<aiVars, otherVars>>

\* catch (23505): UPDATE ... WHERE url = $13 AND created_at > NOW() - 24h returns.
FallbackUpdateDone(c, res) ==
  /\ pc[c] = "fb_update"
  /\ IF res = "ok"
     THEN /\ link_scans' = UpdateRecentByUrl(link_scans, Url(c), arg[c].w, now)
          /\ Finish(c, "stored")
     ELSE /\ pc' = [pc EXCEPT ![c] = "fb_insert"]
          /\ UNCHANGED <<link_scans, result, storageLocks, cacheCutoff, existingId>>
  /\ UNCHANGED <<nextId, now, arg, owner>>
  /\ UNCHANGED <<aiVars, otherVars>>

\* catch (updateErr): plain INSERT returns; its rejection leaves the catch
\* block, so the storage promise rejects after the finally.
FallbackInsertDone(c, res) ==
  /\ pc[c] = "fb_insert"
  /\ IF res = "ok" /\ ~UniqueViolation(link_scans, Url(c))
     THEN /\ link_scans' = link_scans \cup {NewRow(nextId, Url(c), arg[c].href, arg[c].w, now)}
          /\ nextId' = nextId + 1
          /\ Finish(c, "stored")
     ELSE /\ Finish(c, "rejected")
          /\ UNCHANGED <<link_scans, nextId>>
  /\ UNCHANGED <<now, arg, owner>>
  /\ UNCHANGED <<aiVars, otherVars>>

\* Time passes.
Tick(d) ==
  /\ now + d <= MaxTime
  /\ now' = now + d
  /\ UNCHANGED <<link_scans, nextId, storageLocks, pc, arg, cacheCutoff,
                 existingId, owner, result>>
  /\ UNCHANGED <<aiVars, otherVars>>

Next ==
  \/ \E c \in Calls, href \in StoreHrefs, w \in Writes : StoreCall(c, href, w)
  \/ \E c \in Calls : WaiterResume(c)
  \/ \E c \in Calls, res \in QueryOutcomes : SelectDone(c, res)
  \/ \E c \in Calls, res \in QueryOutcomes : UpdateDone(c, res)
  \/ \E c \in Calls, res \in UpsertOutcomes : InsertDone(c, res)
  \/ \E c \in Calls, res \in QueryOutcomes : FallbackUpdateDone(c, res)
  \/ \E c \in Calls, res \in QueryOutcomes : FallbackInsertDone(c, res)
  \/ \E d \in TickSteps : Tick(d)

Spec == Init /\ [][Next]_vars

\* ==================================================== analyzeLinksWithAI
\* -------------------------------------------------------------------- links
RiskHost == <<"xn--pple", "tk">>
GitHost == <<"github", "com">>

HrefRisk == MkUrl("http", RiskHost, <<"/", "l">>, "")
HrefGit == MkUrl("https", GitHost, <<"/", "m">>, "")
HrefRiskFrag == MkUrl("http", RiskHost, <<"/", "l">>, "x")

MkLink(href, text, target) ==
  [href |-> href, text |-> text, targetDomain |-> href.host,
   rel |-> "", target |-> target, download |-> FALSE]

LnA == MkLink(HrefA, "plain", "")
LnASlash == MkLink(HrefASlash, "plain", "_blank")
LnB == MkLink(HrefB, "plain", "")
LnRisk == MkLink(HrefRisk, "plain", "")
LnGit == MkLink(HrefGit, "plain", "")
LnMarked == MkLink(HrefA, "marked", "")

LinkPool == {LnA, LnASlash, LnB, LnRisk, LnGit, LnMarked}

Batches == UNION {[1..n -> LinkPool] : n \in 1..MaxLinks}

\* ------------------------------------------------------- provider answers
\* The answers of the four providers for one URL: no API key configured,
\* all four report it clean, one reports a threat and three report it clean.
ExtNeutral == <<Unconfigured, Unconfigured, Unconfigured, Unconfigured>>
ExtAllClean == <<Clean(Pct(80)), Clean(Pct(90)), Clean(Pct(85)), Clean(Pct(80))>>
ExtOneThreat == <<Threat(Pct(95)), Clean(Pct(90)), Clean(Pct(85)), Clean(Pct(80))>>
ExtOutcomes == {ExtNeutral, ExtAllClean, ExtOneThreat}

\* --------------------------------------------------------------- AI results
RecSafe == "SAFE_TO_FOLLOW"
RecAvoid == "AVOID"
RecCaution == "CAUTION_ADVISED"
\* followRecommendation of the result built when the content fetch fails.
RecUnable == "Unable to analyze - content not accessible"

NoResult == [followRecommendation |-> NULL, safetyRating |-> NullNum]
AIResult(rec, rating) == [followRecommendation |-> rec, safetyRating |-> rating]

\* What the model answers, or what ollamaCache holds, for a URL.
ModelAnswer == AIResult(RecAvoid, Pct(10))

\* analyzeSuspiciousLink returns null (service unavailable, empty response,
\* exception) or the answer of the model.
ModelOutcomes == {"null", "answer"}

\* ----------------------------------------------------------------- step 0-3
Positions == 1..Len(links)

NUrl(i) == normalizeUrl(links[i].href)

\* filteredLinks
Filtered == {i \in Positions : ~hasExtensionMarker(links[i].text)}

\* linksToAnalyze, for the map that getCachedScans returned
Misses(cachedScans) == {i \in Filtered : NUrl(i) \notin DOMAIN cachedScans}

\* The links for which the external providers are called.
Checked(cachedScans) ==
  {i \in Misses(cachedScans) : ~isTrustedDomain(links[i].targetDomain)}

DefaultVerdict(summary) ==
  [trustScore |-> Pct(50), category |-> "SAFE", issues |-> << >>,
   gptSummary |-> summary, recommendation |-> NULL, riskTags |-> NULL,
   confidence |-> Pct(50)]

TrustedVerdict ==
  [trustScore |-> Unit, category |-> "SAFE", issues |-> << >>,
   gptSummary |-> "trusted_domain", recommendation |-> NULL, riskTags |-> NULL,
   confidence |-> Unit]

\* The substitute of step 2 for an external check that threw.
FailedCheck == [safe |-> TRUE, confidence |-> Pct(50), sources |-> << >>, threatCount |-> 0]

\* The synthetic external result of a trusted domain (step 2).
SkippedExternal == [safe |-> TRUE, confidence |-> Unit, sources |-> << >>, threatCount |-> 0]

\* allIssues
MergeIssues(h, ext) ==
  LET Unsafe(src) == ~src.safe /\ src.details
      tagged == [k \in 1..Len(SelectSeq(ext.sources, Unsafe)) |-> "source_threat"]
  IN Append2(h.issues, ext.threatCount > 0, "external_threats") \o tagged

\* Variant with the threshold at 0.
isObviouslyDangerousNever(trustScore, ext) == trustScore < 0 /\ ext.threatCount > 0

isObviouslyDangerous(trustScore, ext) == trustScore < Pct(20) /\ ext.threatCount > 0

isObviouslySafe(trustScore, allIssues, ext) ==
  \/ (trustScore > Pct(80) /\ Len(allIssues) = 0)
  \/ (trustScore > Pct(85) /\ ext.safe /\ ext.confidence > Pct(80))

shouldRunAI(trustScore, allIssues, ext) ==
  /\ (userId # NULL \/ allowAIWithoutAuth)
  /\ ~isObviouslyDangerous(trustScore, ext)
  /\ ~isObviouslySafe(trustScore, allIssues, ext)

\* The verdict that step 3 creates for a link that is not trusted.
InitialVerdict(link, ext) ==
  LET heuristics == calculateHeuristics(link)
      trustScore == calculateTrustScore(heuristics, ext)
      allIssues == MergeIssues(heuristics, ext)
  IN [trustScore |-> trustScore, category |-> categorizeTrust(trustScore),
      issues |-> allIssues,
      gptSummary |-> IF shouldRunAI(trustScore, allIssues, ext) THEN NULL
                     ELSE IF isObviouslyDangerous(trustScore, ext) THEN "ai_skipped_high_risk"
                     ELSE IF isObviouslySafe(trustScore, allIssues, ext) THEN "verified_safe"
                     ELSE NULL,
      recommendation |-> NULL, riskTags |-> NULL,
      confidence |-> Max(Pct(70), ext.confidence)]

\* The verdict that step 3 creates for one link.
Step3Verdict(link, ext) ==
  IF isTrustedDomain(link.targetDomain) THEN TrustedVerdict ELSE InitialVerdict(link, ext)

\* The links of step 3 that reach "if (shouldRunAI)" with a true condition.
Queued(cachedScans, exts) ==
  {i \in Checked(cachedScans) :
     LET v == InitialVerdict(links[i], exts[i])
     IN shouldRunAI(v.trustScore, v.issues, exts[i])}

\* Variant that never finds the URL.
seenUrlsNever(q, u) == FALSE

\* seenUrls.has(normalizedUrl)
seenUrls(q, u) == \E k \in 1..Len(q) : q[k].url = u

\* The loop of step 3 from position j on, as far as aiAnalysisQueue goes.
\* An item is [url, first, originalIndices]; its link and its verdict object
\* are those of position first.
RECURSIVE QueueLoop(_, _, _)
QueueLoop(j, q, run) ==
  IF j > Len(links) THEN q
  ELSE IF j \notin run THEN QueueLoop(j + 1, q, run)
  ELSE IF seenUrls(q, NUrl(j))
  THEN QueueLoop(j + 1,
         [k \in 1..Len(q) |->
            IF q[k].url = NUrl(j)
            THEN [q[k] EXCEPT !.originalIndices = Append(@, j)] ELSE q[k]],
         run)
  ELSE QueueLoop(j + 1,
         Append(q, [url |-> NUrl(j), first |-> j, originalIndices |-> <<j>>]),
         run)

\* Variant that finds no priority item.
priorityIndexNone(q) == 0

\* aiAnalysisQueue.findIndex(...) + 1, 0 when there is none
priorityIndex(q) ==
  IF ~priorityUrl.valid THEN 0
  ELSE LET hits == {k \in 1..Len(q) :
                      normalizeUrl(links[q[k].first].href) = normalizeUrl(priorityUrl)}
       IN IF hits = {} THEN 0 ELSE CHOOSE k \in hits : \A m \in hits : k <= m

\* priorityItem followed by regularItems
Spliced(q) ==
  LET p == priorityIndex(q)
  IN IF p = 0 THEN q
     ELSE <<q[p]>> \o SubSeq(q, 1, p - 1) \o SubSeq(q, p + 1, Len(q))

\* ------------------------------------------------------ processAIAnalysis
Background == [stage |-> stage, aiResult |-> aiResult, microtasks |-> microtasks,
               aiCalls |-> aiCalls]

\* analyzeSuspiciousLink up to its first await: a fresh ollamaCache entry is
\* returned at once, otherwise the health check, the content fetch and the
\* model call are awaited.
InvokeAI(b, q, k) ==
  LET called == [b EXCEPT !.aiCalls = Append(@, q[k].first)]
  IN IF q[k].url \in ollamaCache
     THEN [called EXCEPT !.stage[k] = "ai_resume",
                         !.aiResult[k] = ModelAnswer,
                         !.microtasks = Append(@, <<"ai_resume", k>>)]
     ELSE [called EXCEPT !.stage[k] = "model"]

\* processAIAnalysis up to its first await.
StartItem(b, q, k) ==
  IF userId # NULL /\ ~allowAIWithoutAuth
  THEN [b EXCEPT !.stage[k] = "plan"]
  ELSE InvokeAI(b, q, k)

\* Variant that starts all the items that follow.
RECURSIVE StartFrom(_, _, _)
StartFrom(b, q, k) ==
  IF k > Len(q) THEN b
  ELSE IF b.stage[k] # "queued" THEN StartFrom(b, q, k + 1)
  ELSE StartFrom(StartItem(b, q, k), q, k + 1)

\* The background loop reaches item k (or its end).
StartNext(b, q, k) ==
  IF k > Len(q) THEN b ELSE StartItem(b, q, k)

\* Variant without the bounds 0.7 and 0.3.
aiScoreUnbounded(rec, aiTrustScore, trustScore) ==
  IF rec = RecSafe THEN Min(Unit, aiTrustScore)
  ELSE IF rec = RecAvoid THEN Max(0, aiTrustScore)
  ELSE IF rec = RecCaution THEN Max(Pct(40), Min(Pct(69), aiTrustScore))
  ELSE (aiTrustScore * 6 + trustScore * 4) \div 10

\* "Update trust score ... based on AI recommendation": the new trustScore.
aiScore(rec, aiTrustScore, trustScore) ==
  IF rec = RecSafe THEN Max(Pct(70), Min(Unit, aiTrustScore))
  ELSE IF rec = RecAvoid THEN Min(Pct(30), Max(0, aiTrustScore))
  ELSE IF rec = RecCaution THEN Max(Pct(40), Min(Pct(69), aiTrustScore))
  ELSE (aiTrustScore * 6 + trustScore * 4) \div 10

\* if (ollamaResult) { ... }
ApplyResult(v, r) ==
  IF r = NoResult THEN v
  ELSE LET aiTrustScore == r.safetyRating
           rec == r.followRecommendation
           trustScore == aiScore(rec, aiTrustScore, v.trustScore)
           category ==
             IF rec = RecSafe THEN "SAFE"
             ELSE IF rec = RecAvoid THEN "DANGEROUS"
             ELSE IF rec = RecCaution THEN "SUSPICIOUS"
             ELSE categorizeTrust(trustScore)
       IN [v EXCEPT !.trustScore = trustScore,
                    !.category = category,
                    !.gptSummary = "ai_summary",
                    !.recommendation = rec,
                    !.riskTags = IF rec = RecAvoid THEN "high_risk"
                                 ELSE IF rec = RecCaution THEN "moderate_risk"
                                 ELSE "low_risk",
                    !.confidence = Pct(85)]

\* --------------------------------------------------------------- the call
\* The table holds a fresh row for one of the URLs.
CachedRows == {NewRow(1, normalizeUrl(HrefB), HrefB, AIWrite, 0)}

\* (userId, plan, ALLOW_AI_WITHOUT_AUTH): anonymous, signed in on the premium
\* plan, signed in on the free plan, anonymous with the override.
Callers ==
  {<<NULL, NULL, FALSE>>, <<"u1", "premium", FALSE>>, <<"u1", "free", FALSE>>,
   <<NULL, NULL, TRUE>>}

InitAI ==
  /\ link_scans = CachedRows
  /\ nextId = 2
  /\ storageLocks = [u \in {} |-> NoCall]
  /\ now = 0
  /\ pc = [c \in Calls |-> "idle"]
  /\ arg = [c \in Calls |-> NoArg]
  /\ cacheCutoff = [c \in Calls |-> 0]
  /\ existingId = [c \in Calls |-> 0]
  /\ owner = [c \in Calls |-> NoCall]
  /\ result = [c \in Calls |-> "pending"]
  /\ links \in Batches
  /\ \E caller \in Callers :
       userId = caller[1] /\ userPlan = caller[2] /\ allowAIWithoutAuth = caller[3]
  /\ priorityUrl \in {NoUrl, HrefRiskFrag}
  /\ onUpdate \in BOOLEAN
  /\ ollamaCache \in {{}, {normalizeUrl(HrefA)}}
  /\ apc = "start"
  /\ linksToAnalyze = {}
  /\ externalCheckResults = << >>
  /\ verdicts = << >>
  /\ analyses = << >>
  /\ queue = << >>
  /\ prio = FALSE
  /\ stage = << >>
  /\ aiResult = << >>
  /\ microtasks = << >>
  /\ aiCalls = << >>
  /\ updates = << >>
  /\ netCalls = {}
  /\ storeReqs = << >>
  /\ observed = << >>
  /\ NoPureCall

\* return analyses: the promise of the call is fulfilled.
Return == Append(microtasks, <<"caller_resume", 0>>)

\* Step 0, and the batch lookup of step 0.5 is issued.
Analyze ==
  /\ apc = "start"
  /\ IF Filtered = {}
     THEN /\ verdicts' = [i \in Positions |-> DefaultVerdict(NULL)]
          /\ analyses' = [i \in Positions |-> i]
          /\ microtasks' = Return
          /\ apc' = "returned"
     ELSE /\ apc' = "cache"
          /\ UNCHANGED <<verdicts, analyses, microtasks>>
  /\ UNCHANGED <<storeVars, otherVars, inputVars, linksToAnalyze, externalCheckResults, queue,
                 prio, stage, aiResult, aiCalls, updates, netCalls, storeReqs, observed>>

\* The object that position i refers to when its URL is cached: the map
\* holds one object per URL.
CacheObject(i) == CHOOSE j \in Filtered : NUrl(j) = NUrl(i) /\
                    \A m \in Filtered : NUrl(m) = NUrl(i) => j <= m

\* getCachedScans returns; step 1, and the external checks of step 2 start.
CacheDone(res) ==
  /\ apc = "cache"
  /\ microtasks = << >>
  /\ LET cachedScans == getCachedScans(link_scans, {NUrl(i) : i \in Filtered}, now, res)
         hit == Filtered \ Misses(cachedScans)
     IN /\ verdicts' = [i \in Positions |->
                          IF i \in hit THEN cachedScans[NUrl(i)] ELSE DefaultVerdict(NULL)]
        /\ analyses' = [i \in Positions |-> IF i \in hit THEN CacheObject(i) ELSE 0]
        /\ linksToAnalyze' = Misses(cachedScans)
        /\ netCalls' = Checked(cachedScans)
        /\ IF Misses(cachedScans) = {}
           THEN /\ apc' = "returned"
                /\ microtasks' = Return
           ELSE /\ apc' = "external"
                /\ UNCHANGED microtasks
  /\ UNCHANGED <<storeVars, otherVars, inputVars, externalCheckResults, queue, prio, stage,
                 aiResult, aiCalls, updates, storeReqs, observed>>

\* Steps 3 and 4 and the gap filling, for the results of step 2: the verdict
\* objects, the queue and the background function up to its first await.
Steps34(answers) ==
  LET hit == Filtered \ linksToAnalyze
      exts == [i \in Positions |->
                 IF i \in netCalls THEN checkExternalServices(links[i], answers[i])
                 ELSE SkippedExternal]
      initial == [i \in Positions |->
                    IF i \in hit THEN verdicts[i]
                    ELSE IF i \notin Filtered THEN DefaultVerdict("already_processed")
                    ELSE Step3Verdict(links[i], exts[i])]
      run == {i \in linksToAnalyze : /\ ~isTrustedDomain(links[i].targetDomain)
                             /\ shouldRunAI(initial[i].trustScore, initial[i].issues, exts[i])}
      aiAnalysisQueue == QueueLoop(1, << >>, run)
      q == Spliced(aiAnalysisQueue)
      b0 == [stage |-> [k \in 1..Len(q) |-> "queued"],
             aiResult |-> [k \in 1..Len(q) |-> NoResult],
             microtasks |-> << >>,
             aiCalls |-> << >>]
  IN [externalCheckResults |-> exts,
      verdicts |-> initial,
      analyses |-> [i \in Positions |-> IF i \in hit THEN analyses[i] ELSE i],
      queue |-> q,
      prio |-> (priorityIndex(aiAnalysisQueue) > 0),
      background |-> StartNext(b0, q, 1)]

\* Promise.all of step 2 is fulfilled with the providers' answers; steps 3
\* and 4, the gap filling and the return.
ExternalDone ==
  /\ apc = "external"
  /\ microtasks = << >>
  /\ \E answers \in [netCalls -> ExtOutcomes] :
       \E r \in {Steps34(answers)} :
         /\ externalCheckResults' = r.externalCheckResults
         /\ verdicts' = r.verdicts
         /\ analyses' = r.analyses
         /\ queue' = r.queue
         /\ prio' = r.prio
         /\ stage' = r.background.stage
         /\ aiResult' = r.background.aiResult
         /\ aiCalls' = r.background.aiCalls
         /\ microtasks' = Append(r.background.microtasks, <<"caller_resume", 0>>)
  /\ apc' = "returned"
  /\ UNCHANGED <<storeVars, otherVars, inputVars, linksToAnalyze, updates, netCalls, storeReqs,
                 observed>>

\* An element of analyses that was never assigned.
Hole ==
  [trustScore |-> NullNum, category |-> NULL, issues |-> << >>,
   gptSummary |-> NULL, recommendation |-> NULL, riskTags |-> NULL,
   confidence |-> NullNum]

Deref(i) == IF analyses[i] = 0 THEN Hole ELSE verdicts[analyses[i]]

\* analyses[i].link.href: none for an element never assigned; row.url, the
\* key under which the row was found, for an entry built by getCachedScans;
\* otherwise the href of the link for which the verdict object was made.
AnalysisLinkHref(i) ==
  IF analyses[i] = 0 THEN NoUrl
  ELSE IF i \in Filtered \ linksToAnalyze THEN NUrl(analyses[i])
  ELSE links[analyses[i]].href

\* The continuation of "await analyzeLinksWithAI(...)" in the caller.
CallerResume ==
  /\ microtasks # << >>
  /\ Head(microtasks)[1] = "caller_resume"
  /\ observed' = [i \in Positions |-> Deref(i)]
  /\ microtasks' = Tail(microtasks)
  /\ UNCHANGED <<storeVars, otherVars, inputVars, apc, linksToAnalyze, externalCheckResults,
                 verdicts, analyses, queue, prio, stage,
                 aiResult, aiCalls, updates, netCalls, storeReqs>>

\* processAIAnalysis continues with the result of analyzeSuspiciousLink,
\* changes the verdict object of the item and hands it to storeScanResult.
Applied(k, r, tasks) ==
  /\ verdicts' = [verdicts EXCEPT ![queue[k].first] = ApplyResult(@, r)]
  /\ storeReqs' = IF r = NoResult THEN storeReqs
                  ELSE Append(storeReqs, links[queue[k].first].href)
  /\ stage' = [stage EXCEPT ![k] = "loop_resume"]
  /\ microtasks' = Append(tasks, <<"loop_resume", k>>)

\* ... when the result was there without waiting.
AIResume ==
  /\ microtasks # << >>
  /\ Head(microtasks)[1] = "ai_resume"
  /\ LET k == Head(microtasks)[2]
     IN Applied(k, aiResult[k], Tail(microtasks))
  /\ UNCHANGED <<storeVars, otherVars, inputVars, apc, linksToAnalyze, externalCheckResults,
                 analyses, queue, prio, aiResult,
                 aiCalls, updates, netCalls, observed>>

\* ... when the content fetch and the model call have come back.
ModelDone(k, outcome) ==
  /\ microtasks = << >>
  /\ k \in 1..Len(queue)
  /\ stage[k] = "model"
  /\ LET r == IF outcome = "answer" THEN ModelAnswer ELSE NoResult
     IN Applied(k, r, microtasks)
  /\ UNCHANGED <<storeVars, otherVars, inputVars, apc, linksToAnalyze, externalCheckResults,
                 analyses, queue, prio, aiResult,
                 aiCalls, updates, netCalls, observed>>

\* getUserPlan comes back with the row of the user, or the query is rejected.
PlanDone(k, res) ==
  /\ microtasks = << >>
  /\ k \in 1..Len(queue)
  /\ stage[k] = "plan"
  /\ LET b == IF res = "ok" /\ userPlan \in {"premium", "trial"}
              THEN InvokeAI(Background, queue, k)
              ELSE IF res = "ok"
              THEN [Background EXCEPT !.stage[k] = "loop_resume",
                                      !.microtasks = Append(@, <<"loop_resume", k>>)]
              ELSE [Background EXCEPT !.stage[k] = "loop_reject",
                                      !.microtasks = Append(@, <<"loop_reject", k>>)]
     IN /\ stage' = b.stage
        /\ aiResult' = b.aiResult
        /\ microtasks' = b.microtasks
        /\ aiCalls' = b.aiCalls
  /\ UNCHANGED <<storeVars, otherVars, inputVars, apc, linksToAnalyze, externalCheckResults,
                 verdicts, analyses, queue, prio,
                 updates, netCalls, storeReqs, observed>>

RECURSIVE Deliver(_, _, _)
Deliver(log, indices, v) ==
  IF indices = << >> THEN log
  ELSE Deliver(Append(log, [index |-> indices[1], verdict |-> v]), Tail(indices), v)

\* The background loop continues after "await processAIAnalysis(item)":
\* every original index of the item is pointed at the verdict object of the
\* item and reported, then the next item is started.
LoopResume ==
  /\ microtasks # << >>
  /\ Head(microtasks)[1] = "loop_resume"
  /\ LET k == Head(microtasks)[2]
         item == queue[k]
         indices == {item.originalIndices[n] : n \in 1..Len(item.originalIndices)}
         b == StartNext([Background EXCEPT !.stage[k] = "done",
                                           !.microtasks = Tail(@)], queue, k + 1)
     IN /\ analyses' = [i \in Positions |-> IF i \in indices THEN item.first ELSE analyses[i]]
        /\ updates' = IF onUpdate
                      THEN Deliver(updates, item.originalIndices, verdicts[item.first])
                      ELSE updates
        /\ stage' = b.stage
        /\ aiResult' = b.aiResult
        /\ microtasks' = b.microtasks
        /\ aiCalls' = b.aiCalls
  /\ UNCHANGED <<storeVars, otherVars, inputVars, apc, linksToAnalyze, externalCheckResults,
                 verdicts, queue, prio, netCalls,
                 storeReqs, observed>>

\* "await processAIAnalysis(item)" throws: for the priority item the
\* background function ends there (.catch logs it), for another item the
\* catch block of the loop logs it and the next item is started.
LoopReject ==
  /\ microtasks # << >>
  /\ Head(microtasks)[1] = "loop_reject"
  /\ LET k == Head(microtasks)[2]
         failed == [Background EXCEPT !.stage[k] = "failed", !.microtasks = Tail(@)]
         b == IF prio /\ k = 1 THEN failed ELSE StartNext(failed, queue, k + 1)
     IN /\ stage' = b.stage
        /\ aiResult' = b.aiResult
        /\ microtasks' = b.microtasks
        /\ aiCalls' = b.aiCalls
  /\ UNCHANGED <<storeVars, otherVars, inputVars, apc, linksToAnalyze, externalCheckResults,
                 verdicts, analyses, queue, prio,
                 updates, netCalls, storeReqs, observed>>

NextAI ==
  \/ Analyze
  \/ \E res \in QueryOutcomes : CacheDone(res)
  \/ ExternalDone
  \/ CallerResume
  \/ AIResume
  \/ \E k \in 1..MaxLinks, outcome \in ModelOutcomes : ModelDone(k, outcome)
  \/ \E k \in 1..MaxLinks, res \in QueryOutcomes : PlanDone(k, res)
  \/ LoopResume
  \/ LoopReject

SpecAI == InitAI /\ [][NextAI]_vars

\* ============================================================ analyzeLinks
\* One call of analyzeLinks(links, domain, userId).  verdicts holds the
\* verdict object of each iteration of the loop of step 3, analyses the
\* objects pushed so far; apc is external, loop, plan4, ai, plan5, gpt,
\* returned or rejected.
LinksBatches == UNION {[1..n -> LinkPool] : n \in 1..MaxBatch}

\* What analyzeSuspiciousLink resolves to: null, or a validated answer.
LinksAIResults == {NoResult, ModelAnswer, AIResult(RecSafe, Pct(85))}

\* What getGptAnalysis resolves to: null, or a parsed answer.
NoGptResult == [summary |-> NULL, confidence |-> 0]
GptAnswer == [summary |-> "gpt_summary", confidence |-> Pct(90)]

\* The variables that analyzeLinks leaves alone.
linksFrame ==
  <<storeVars, pureVars, ollamaVars, inputVars, linksToAnalyze, queue, prio, stage, aiResult,
    microtasks, updates, netCalls>>

InitLinks ==
  /\ NoStore
  /\ NoPureCall
  /\ links \in LinksBatches
  /\ \E caller \in Callers :
       userId = caller[1] /\ userPlan = caller[2] /\ allowAIWithoutAuth = caller[3]
  /\ priorityUrl = NoUrl
  /\ onUpdate = FALSE
  /\ ollamaCache = {}
  /\ apc = "external"
  /\ linksToAnalyze = {}
  /\ externalCheckResults = << >>
  /\ verdicts = << >>
  /\ analyses = << >>
  /\ queue = << >>
  /\ prio = FALSE
  /\ stage = << >>
  /\ aiResult = << >>
  /\ microtasks = << >>
  /\ aiCalls = << >>
  /\ updates = << >>
  /\ netCalls = {}
  /\ storeReqs = << >>
  /\ observed = << >>

\* Step 3 of analyzeLinks: the verdict before any AI analysis.
LinksVerdict(link, ext) ==
  LET heuristics == calculateHeuristics(link)
      trustScore == calculateTrustScore(heuristics, ext)
  IN [trustScore |-> trustScore, category |-> categorizeTrust(trustScore),
      issues |-> MergeIssues(heuristics, ext),
      gptSummary |-> NULL, recommendation |-> NULL, riskTags |-> NULL,
      confidence |-> Max(Pct(70), ext.confidence)]

\* const shouldRunAI = ...
LinksShouldRunAI(v) ==
  /\ (v.category = "SUSPICIOUS" \/ v.category = "DANGEROUS" \/ v.trustScore < Pct(50))
  /\ (userId # NULL \/ allowAIWithoutAuth)

\* if (gptResult) { ... }
ApplyGpt(v, r) ==
  IF r = NoGptResult THEN v
  ELSE [v EXCEPT !.gptSummary = r.summary,
                 !.recommendation = "gpt_recommendation",
                 !.riskTags = "gpt_risk_tags",
                 !.confidence = IF r.confidence # 0 THEN r.confidence ELSE @]

\* analyses.push({link, verdict}) followed by "continue".
Push(vs) ==
  /\ verdicts' = vs
  /\ analyses' = Append(analyses, Len(vs))
  /\ apc' = "loop"

\* analyses.push({link, verdict}) and the storeScanResult call that is not
\* awaited.
PushAndStore(vs) ==
  /\ Push(vs)
  /\ storeReqs' = Append(storeReqs, links[Len(vs)].href)

\* Step 5 up to its await, or to the end of the iteration.
Step5(vs) ==
  IF userId # NULL /\ vs[Len(vs)].category = "SAFE" /\ vs[Len(vs)].gptSummary = NULL
  THEN /\ verdicts' = vs
       /\ apc' = "plan5"
       /\ UNCHANGED <<analyses, storeReqs>>
  ELSE PushAndStore(vs)

\* Every checkExternalServices call of step 2 has settled.
LinksExternalDone ==
  /\ apc = "external"
  /\ \E answers \in [1..Len(links) -> ExtOutcomes] :
       externalCheckResults' = [i \in 1..Len(links) |-> checkExternalServices(links[i], answers[i])]
  /\ apc' = "loop"
  /\ UNCHANGED <<linksFrame, linksVars, verdicts, analyses, aiCalls, storeReqs, observed>>

\* One iteration of the loop of step 3, up to its first await or to its end.
LinksIteration ==
  /\ apc = "loop"
  /\ Len(analyses) < Len(links)
  /\ \E vs \in {Append(verdicts, LinksVerdict(links[Len(analyses) + 1],
                                               externalCheckResults[Len(analyses) + 1]))} :
       IF LinksShouldRunAI(vs[Len(vs)])
       THEN /\ verdicts' = vs
            /\ IF userId = NULL /\ allowAIWithoutAuth
               THEN apc' = "ai" /\ aiCalls' = Append(aiCalls, Len(vs))
               ELSE apc' = "plan4" /\ UNCHANGED aiCalls
            /\ UNCHANGED <<analyses, storeReqs>>
       ELSE Step5(vs) /\ UNCHANGED aiCalls
  /\ UNCHANGED <<linksFrame, linksVars, externalCheckResults, observed>>

\* "await getUserPlan(userId!)" of step 4 settles: the query is rejected, or
\* returns the row of the user.
Plan4Done(res) ==
  /\ apc = "plan4"
  /\ IF res = "error"
     THEN apc' = "rejected" /\ UNCHANGED <<verdicts, analyses, aiCalls>>
     ELSE IF userPlan \notin {"premium", "trial"}
     THEN Push(verdicts) /\ UNCHANGED aiCalls
     ELSE /\ apc' = "ai"
          /\ aiCalls' = Append(aiCalls, Len(verdicts))
          /\ UNCHANGED <<verdicts, analyses>>
  /\ UNCHANGED <<linksFrame, linksVars, externalCheckResults, storeReqs, observed>>

\* "await analyzeSuspiciousLink(...)" settles; a rejection is caught and
\* leaves the verdict as a null result does.
OllamaDone(r) ==
  /\ apc = "ai"
  /\ Step5([verdicts EXCEPT ![Len(verdicts)] = ApplyResult(@, r)])
  /\ UNCHANGED <<linksFrame, linksVars, externalCheckResults, aiCalls, observed>>

\* "await getUserPlan(userId)" of step 5 settles.
Plan5Done(res) ==
  /\ apc = "plan5"
  /\ IF res = "error"
     THEN apc' = "rejected" /\ UNCHANGED <<verdicts, analyses, storeReqs>>
     ELSE IF userPlan \in {"premium", "trial"}
     THEN apc' = "gpt" /\ UNCHANGED <<verdicts, analyses, storeReqs>>
     ELSE PushAndStore(verdicts)
  /\ UNCHANGED <<linksFrame, linksVars, externalCheckResults, aiCalls, observed>>

\* "await getGptAnalysis(...)" settles.
GptDone(r) ==
  /\ apc = "gpt"
  /\ PushAndStore([verdicts EXCEPT ![Len(verdicts)] = ApplyGpt(@, r)])
  /\ UNCHANGED <<linksFrame, linksVars, externalCheckResults, aiCalls, observed>>

\* The loop is over; the gap filling finds no gap; return analyses.
LinksReturn ==
  /\ apc = "loop"
  /\ Len(analyses) = Len(links)
  /\ observed' = [i \in 1..Len(analyses) |-> verdicts[analyses[i]]]
  /\ apc' = "returned"
  /\ UNCHANGED <<linksFrame, linksVars, externalCheckResults, verdicts, analyses, aiCalls,
                 storeReqs>>

\* The promise of a storeScanResult call rejects; its catch handler logs.
WriteFailed(n) ==
  /\ n \in (1..Len(storeReqs)) \ failedWrites
  /\ failedWrites' = failedWrites \cup {n}
  /\ UNCHANGED <<storeVars, aiVars, pureVars, ollamaVars>>

NextLinks ==
  \/ LinksExternalDone
  \/ LinksIteration
  \/ \E res \in QueryOutcomes : Plan4Done(res)
  \/ \E r \in LinksAIResults : OllamaDone(r)
  \/ \E res \in QueryOutcomes : Plan5Done(res)
  \/ \E r \in {NoGptResult, GptAnswer} : GptDone(r)
  \/ LinksReturn
  \/ \E n \in 1..MaxBatch : WriteFailed(n)

SpecLinks == InitLinks /\ [][NextLinks]_vars


\* ==================================================== analyzeSuspiciousLink
\* Calls of analyzeSuspiciousLink(link, ..., trustScore) with OLLAMA_URL
\* configured, which may overlap.  A call is at idle, probe (awaiting
\* checkOllamaHealth), fetch (awaiting fetchLinkContent), model (awaiting
\* callOllama) or done; how tells which return statement ended it.
Analyses == 1..NumAnalyses

\* The instants at which something happens.
Instants == {0, 4, 5, 720, 724}

AnalysisHrefs == {HrefA, HrefASlash}

\* trustScore arguments: 0.10, 0.35 and 0.595.
AnalysisScores == {Pct(10), Pct(35), 5950}

\* Math.round of a rating held in hundredths.
Round(x) == ((x + 50) \div 100) * 100

\* ------------------------------------------------------ the model's answer
\* A parsed JSON object: safetyRating (absent or not a number when
\* hasRating is false) and the text of followRecommendation.
EmptyObject == [hasRating |-> FALSE, safetyRating |-> 0, followRecommendation |-> ""]

ParsedObjects ==
  {[hasRating |-> TRUE, safetyRating |-> Pct(85), followRecommendation |-> "SAFE_TO_FOLLOW"],
   [hasRating |-> TRUE, safetyRating |-> Pct(150), followRecommendation |-> "unsafe - avoid"],
   [hasRating |-> TRUE, safetyRating |-> 0 - Pct(5), followRecommendation |-> "dangerous"],
   [hasRating |-> TRUE, safetyRating |-> 4250, followRecommendation |-> "maybe"],
   EmptyObject}

\* The objects found inside a longer text.
FencedObject ==
  [hasRating |-> TRUE, safetyRating |-> Pct(20), followRecommendation |-> "AVOID"]
BracesObject ==
  [hasRating |-> TRUE, safetyRating |-> Pct(85), followRecommendation |-> "SAFE_TO_FOLLOW"]

\* What one parsing strategy finds in the response: no candidate text, a
\* text that JSON.parse rejects, a JSON value that is not an object, or an
\* object.
NotFound == [kind |-> "none", obj |-> << >>]
Unparsable == [kind |-> "fails", obj |-> << >>]
NonObject == [kind |-> "value", obj |-> << >>]
Object(o) == [kind |-> "object", obj |-> <<o>>]

\* Responses of the model, by what the whole text, the first fenced code
\* block and the first-{ to last-} substring parse to.  A text that is a
\* JSON object is its own substring; the JSON string "{}" is a value whose
\* substring is the empty object.
Responses ==
  {[whole |-> Object(o), fenced |-> NotFound, braces |-> Object(o)] : o \in ParsedObjects}
  \cup {[whole |-> Unparsable, fenced |-> f, braces |-> b] :
          f \in {NotFound, Unparsable, Object(FencedObject)},
          b \in {Unparsable, Object(BracesObject)}}
  \cup {[whole |-> Unparsable, fenced |-> NotFound, braces |-> NotFound]}
  \cup {[whole |-> NonObject, fenced |-> NotFound, braces |-> b] :
          b \in {NotFound, Object(EmptyObject)}}

\* Step 4: result after the three strategies; kind "object" when one is set.
ParseResponse(response) ==
  IF response.whole.kind = "object" THEN response.whole
  ELSE IF response.whole.kind = "value" THEN NotFound
  ELSE IF response.fenced.kind = "none" THEN
         (IF response.braces.kind = "object" THEN response.braces ELSE NotFound)
  ELSE IF response.fenced.kind = "object" THEN response.fenced
  ELSE IF response.braces.kind = "object" THEN response.braces
  ELSE NotFound

\* rec.includes('SAFE') || rec.includes('FOLLOW'), on the upper-cased text
ContainsSafeOrFollow == {"SAFE_TO_FOLLOW", "unsafe - avoid"}

\* rec.includes('AVOID') || rec.includes('DANGER')
ContainsAvoidOrDanger == {"AVOID", "unsafe - avoid", "dangerous"}

normalizeRecommendation(text) ==
  IF text = "" THEN RecCaution
  ELSE IF text \in ContainsSafeOrFollow THEN RecSafe
  ELSE IF text \in ContainsAvoidOrDanger THEN RecAvoid
  ELSE RecCaution

\* Variant without the clamp.
normalizeRatingUnclamped(o, trustScore) ==
  IF o.hasRating THEN Round(o.safetyRating) ELSE Round(trustScore)

\* "Validate and normalize safety rating"
normalizeRating(o, trustScore) ==
  Max(0, Min(Pct(100), Round(IF o.hasRating THEN o.safetyRating ELSE Round(trustScore))))

\* The validated result.
ValidatedResult(o, trustScore) ==
  AIResult(normalizeRecommendation(o.followRecommendation), normalizeRating(o, trustScore))

\* Variant without the penalty.
DegradedResultNoPenalty(trustScore) == AIResult(RecUnable, Max(0, Min(Pct(100), trustScore)))

\* The result returned when the content could not be fetched.
DegradedResult(trustScore) ==
  AIResult(RecUnable, Max(0, Min(Pct(100), trustScore - Pct(20))))

\* The result returned when no strategy yields an object.
FallbackResult(trustScore) ==
  AIResult(IF trustScore < Pct(40) THEN RecAvoid ELSE RecCaution, Round(trustScore))

\* Variant that stores the fallback result too.
AfterModelCacheAll(response, trustScore) ==
  IF ParseResponse(response).kind # "object"
  THEN [result |-> FallbackResult(trustScore), how |-> "fallback", cache |-> TRUE]
  ELSE [result |-> ValidatedResult(ParseResponse(response).obj[1], trustScore),
        how |-> "parsed", cache |-> TRUE]

\* Steps 4 and 5 for a non-empty response: what is returned, and whether
\* ollamaCache.set is reached.
AfterModel(response, trustScore) ==
  IF ParseResponse(response).kind # "object"
  THEN [result |-> FallbackResult(trustScore), how |-> "fallback", cache |-> FALSE]
  ELSE [result |-> ValidatedResult(ParseResponse(response).obj[1], trustScore),
        how |-> "parsed", cache |-> TRUE]

\* What callOllama ends with: a connection error or a missing model
\* (recorded as unavailable), another error, an empty response, a text.
NoResponse == [whole |-> NotFound, fenced |-> NotFound, braces |-> NotFound]

CallOutcomes ==
  {[status |-> st, response |-> NoResponse] : st \in {"down", "error", "empty"}}
  \cup {[status |-> "text", response |-> r] : r \in Responses}

\* ---------------------------------------------------------------- the call
IdleCall == [pc |-> "idle", href |-> NoUrl, trustScore |-> 0, result |-> NoResult, how |-> NULL]

\* Variant with the comparison "<=".
CacheHitInclusive(key) ==
  key \in DOMAIN ollamaEntries /\ minute - ollamaEntries[key].timestamp <= CACHE_TTL

\* cached && Date.now() - cached.timestamp < CACHE_TTL
CacheHit(key) ==
  key \in DOMAIN ollamaEntries /\ minute - ollamaEntries[key].timestamp < CACHE_TTL

\* Variant that takes any recorded availability.
AvailabilityKnownAlways == ollamaAvailable # NULL

\* ollamaAvailable !== null && (now - ollamaLastCheck) < OLLAMA_CHECK_INTERVAL
AvailabilityKnown ==
  ollamaAvailable # NULL /\ minute - ollamaLastCheck < OLLAMA_CHECK_INTERVAL

\* return statement of analyzeSuspiciousLink
Returned(c, res, how) ==
  [acall EXCEPT ![c].pc = "done", ![c].result = res, ![c].how = how]

InitOllama ==
  /\ NoStore
  /\ NoAnalysis
  /\ fn = NoFn /\ ret = << >> /\ failedWrites = {}
  /\ ollamaAvailable = NULL
  /\ ollamaLastCheck = 0
  /\ ollamaEntries = << >>
  /\ acall = [c \in Analyses |-> IdleCall]
  /\ probes = << >>
  /\ minute = 0

ollamaFrame == <<storeVars, aiVars, pureVars, linksVars>>

\* analyzeSuspiciousLink is called: the cache lookup, and isOllamaAvailable
\* up to the call of checkOllamaHealth.
AnalysisStart(c, href, trustScore) ==
  /\ acall[c].pc = "idle"
  /\ IF c = 1 THEN TRUE ELSE acall[c - 1].pc # "idle"
  /\ \E a \in {[acall EXCEPT ![c].href = href, ![c].trustScore = trustScore]} :
       IF CacheHit(normalizeUrl(href))
       THEN /\ acall' = [a EXCEPT ![c].pc = "done", ![c].how = "cached",
                                  ![c].result = ollamaEntries[normalizeUrl(href)].result]
            /\ UNCHANGED probes
       ELSE IF AvailabilityKnown
       THEN /\ acall' = IF ollamaAvailable = "true"
                        THEN [a EXCEPT ![c].pc = "fetch"]
                        ELSE [a EXCEPT ![c].pc = "done", ![c].how = "unavailable"]
            /\ UNCHANGED probes
       ELSE /\ acall' = [a EXCEPT ![c].pc = "probe"]
            /\ probes' = Append(probes, minute)
  /\ UNCHANGED <<ollamaFrame, ollamaAvailable, ollamaLastCheck, ollamaEntries, minute>>

\* checkOllamaHealth returns: the model answered (or is loading); the
\* runtime timed out, refused, answered with an error status or lacks the
\* model; or another exception reached the outer catch.
ProbeDone(c, health) ==
  /\ acall[c].pc = "probe"
  /\ IF health = "healthy"
     THEN /\ ollamaAvailable' = "true"
          /\ ollamaLastCheck' = minute
          /\ acall' = [acall EXCEPT ![c].pc = "fetch"]
     ELSE IF health = "unreachable"
     THEN /\ acall' = Returned(c, NoResult, "unavailable")
          /\ UNCHANGED <<ollamaAvailable, ollamaLastCheck>>
     ELSE /\ ollamaAvailable' = "false"
          /\ ollamaLastCheck' = minute
          /\ acall' = Returned(c, NoResult, "unavailable")
  /\ UNCHANGED <<ollamaFrame, ollamaEntries, probes, minute>>

\* fetchLinkContent returns text, or an error or no text.
FetchDone(c, ok) ==
  /\ acall[c].pc = "fetch"
  /\ acall' = IF ok THEN [acall EXCEPT ![c].pc = "model"]
              ELSE Returned(c, DegradedResult(acall[c].trustScore), "degraded")
  /\ UNCHANGED <<ollamaFrame, ollamaAvailable, ollamaLastCheck, ollamaEntries, probes, minute>>

\* callOllama returns, and steps 4 and 5 run.
CallOllamaDone(c, out) ==
  /\ acall[c].pc = "model"
  /\ IF out.status = "error"
     THEN UNCHANGED <<ollamaAvailable, ollamaLastCheck>>
     ELSE /\ ollamaAvailable' = IF out.status = "down" THEN "false" ELSE "true"
          /\ ollamaLastCheck' = minute
  /\ IF out.status # "text"
     THEN /\ acall' = Returned(c, NoResult, "empty")
          /\ UNCHANGED ollamaEntries
     ELSE \E r \in {AfterModel(out.response, acall[c].trustScore)} :
            /\ acall' = Returned(c, r.result, r.how)
            /\ ollamaEntries' =
                 IF r.cache
                 THEN [k \in DOMAIN ollamaEntries \cup {normalizeUrl(acall[c].href)} |->
                         IF k = normalizeUrl(acall[c].href)
                         THEN [result |-> r.result, timestamp |-> minute]
                         ELSE ollamaEntries[k]]
                 ELSE ollamaEntries
  /\ UNCHANGED <<ollamaFrame, probes, minute>>

\* Time passes.
Later(t) ==
  /\ t \in Instants
  /\ t > minute
  /\ minute' = t
  /\ UNCHANGED <<ollamaFrame, ollamaAvailable, ollamaLastCheck, ollamaEntries, acall, probes>>

NextOllama ==
  \/ \E c \in Analyses, href \in AnalysisHrefs, trustScore \in AnalysisScores :
       AnalysisStart(c, href, trustScore)
  \/ \E c \in Analyses, health \in {"healthy", "unreachable", "exception"} : ProbeDone(c, health)
  \/ \E c \in Analyses, ok \in BOOLEAN : FetchDone(c, ok)
  \/ \E c \in Analyses, out \in CallOutcomes : CallOllamaDone(c, out)
  \/ \E t \in Instants : Later(t)

SpecOllama == InitOllama /\ [][NextOllama]_vars


\* ================================================== single function calls
\* One call of normalizeUrl, getCachedScans, calculateHeuristics,
\* checkExternalServices, calculateTrustScore or of the scoring of one link,
\* on arguments drawn from the sets below.

\* ------------------------------------------------------------ normalizeUrl
\* k times "/"
Slashes(k) == [i \in 1..k |-> "/"]

\* Paths "", "/", "/a", "/a/", "/a//", ... with up to MaxSlashes trailing slashes.
TrailingPaths ==
  {<< >>} \cup {<<"/">> \o Slashes(k) : k \in 0..MaxSlashes}
          \cup {<<"/", "a">> \o Slashes(k) : k \in 0..MaxSlashes}

UrlInputs ==
  {MkUrl(s, ShopHost, p, f) : s \in {"https", "http"}, p \in TrailingPaths, f \in {"", "top"}}
  \cup {NoUrl}

CallNormalizeUrl ==
  /\ fn.name = "normalizeUrl"
  /\ ret = << >>
  /\ ret' = <<normalizeUrl(fn.arg)>>
  /\ UNCHANGED <<storeVars, aiVars, linksVars, ollamaVars, fn>>

\* ---------------------------------------------------------- getCachedScans
\* The tables that storeScanResult can leave: at most one row per url.
LookupTables ==
  {{}} \cup {{NewRow(1, normalizeUrl(HrefA), HrefA, w, c)} : w \in {HeurWrite, AIWrite}, c \in {0, 1}}
       \cup {{NewRow(1, normalizeUrl(HrefA), HrefA, AIWrite, 0),
               NewRow(2, normalizeUrl(HrefB), HrefB, HeurWrite, c)} : c \in {1, 2}}

LookupUrls == {{HrefA}, {HrefASlash}, {HrefA, HrefB}, {HrefASlash, HrefAFrag, HrefB}}

\* The query of getCachedScans returns, or fails.
CachedScansDone(res) ==
  /\ fn.name = "getCachedScans"
  /\ ret = << >>
  /\ ret' = <<getCachedScans(link_scans, fn.arg, now, res)>>
  /\ UNCHANGED <<storeVars, aiVars, linksVars, ollamaVars, fn>>

\* ----------------------------------------------------- calculateTrustScore
\* The subsequence of seq at the indices in S.
SubList(seq, S) ==
  LET F[i \in 0..Len(seq)] ==
        IF i = 0 THEN << >>
        ELSE IF i \in S THEN Append(F[i - 1], seq[i]) ELSE F[i - 1]
  IN F[Len(seq)]

\* The issues that carry a penalty, and one that carries none.
PenaltyIssues ==
  <<"PHISHING_RISK", "short_url", "no_https", "punycode", "suspicious_tld", "ip_address",
    "suspicious_params", "encoded_url", "invalid_url", "external_threats">>

\* Issue lists: every combination of five of the penalties, with or without
\* an issue that has no penalty, and every penalty at once.
IssueLists ==
  {SubList(PenaltyIssues, S) : S \in SUBSET {1, 2, 3, 4, 9}}
  \cup {SubList(PenaltyIssues, S) \o <<"deep_path">> : S \in SUBSET {1, 3}}
  \cup {PenaltyIssues}

FlagSets ==
  [hasNoopener : BOOLEAN, isKnownSafe : BOOLEAN, hasValidSSL : BOOLEAN, hasValidDomain : BOOLEAN]

\* One provider is configured and reports a threat; two are configured, one
\* reports a threat and one reports the URL clean.
ExtThreatOnly == <<Threat(Pct(95)), Unconfigured, Unconfigured, Unconfigured>>
ExtThreatAndClean == <<Unconfigured, Clean(Pct(80)), Unconfigured, Threat(Pct(95))>>

\* What analyzeLinks and analyzeLinksWithAI pass as externalResult: nothing,
\* the substitute after a failed check, the constant for a trusted domain,
\* or an aggregate of checkExternalServices.
ExternalResults ==
  {NoExternalResult, SkippedExternal, TrustedResult, FailedCheck}
  \cup {checkExternalServices(LnA, c) : c \in ExtOutcomes \cup {ExtThreatOnly, ExtThreatAndClean}}

CallCalculateTrustScore ==
  /\ fn.name = "calculateTrustScore"
  /\ ret = << >>
  /\ ret' = <<calculateTrustScore(fn.arg.heuristics, fn.arg.externalResult)>>
  /\ UNCHANGED <<storeVars, aiVars, linksVars, ollamaVars, fn>>

\* ----------------------------------------------------- calculateHeuristics
HeuristicHosts ==
  {ShopHost, <<"bit", "ly">>, <<"go", "bit", "ly">>, <<"t", "co">>, RiskHost,
   <<"www", "xn--pple", "io">>, GitHost, <<"docs", "github", "com">>, <<"campus", "edu">>,
   <<"intranet">>}

\* Links as the client sends them: targetDomain is the hostname of href, or
\* another domain; the href of the last ones does not parse.
HeuristicLinks ==
  LET same == {[href |-> MkUrl(s, h, <<"/", "l">>, ""), text |-> "plain", targetDomain |-> h,
                rel |-> r, target |-> t, download |-> d] :
                 s \in {"https", "http", "ftp"}, h \in HeuristicHosts,
                 r \in {"", "noopener"}, t \in {"", "_blank"}, d \in BOOLEAN}
  IN same
     \cup {[l EXCEPT !.targetDomain = dom] : l \in same, dom \in {ShopHost, GitHost}}
     \cup {[href |-> NoUrl, text |-> "plain", targetDomain |-> ShopHost,
             rel |-> "", target |-> t, download |-> FALSE] : t \in {"", "_blank"}}

CallCalculateHeuristics ==
  /\ fn.name = "calculateHeuristics"
  /\ ret = << >>
  /\ ret' = <<calculateHeuristics(fn.arg)>>
  /\ UNCHANGED <<storeVars, aiVars, linksVars, ollamaVars, fn>>

\* --------------------------------------------------- checkExternalServices
\* What one provider call can end with: an error response, a clean report,
\* a pending scan, a threat report, or a rejected promise.
ProviderOutcomes ==
  {Unconfigured, Clean(Pct(80)), Clean(Pct(50)), Threat(Pct(95)), ProviderRejected}

ProviderChecks == [1..4 -> ProviderOutcomes]

\* Variant with Promise.all: one rejected provider call rejects the await.
awaitAll(checks) ==
  IF \E k \in 1..Len(checks) : ~checks[k].settled THEN "rejected" ELSE "fulfilled"

\* await Promise.allSettled([...]) is fulfilled whatever the four promises do.
awaitAllSettled(checks) == "fulfilled"

\* The promise that checkExternalServices(link) returns.
CheckExternalServicesCall(link, checks) ==
  IF ~isTrustedDomain(link.targetDomain) /\ awaitAllSettled(checks) = "rejected"
  THEN [status |-> "rejected"]
  ELSE [status |-> "fulfilled", value |-> checkExternalServices(link, checks)]

CallCheckExternalServices ==
  /\ fn.name = "checkExternalServices"
  /\ ret = << >>
  /\ ret' = <<CheckExternalServicesCall(fn.arg.link, fn.arg.checks)>>
  /\ UNCHANGED <<storeVars, aiVars, linksVars, ollamaVars, fn>>

\* ----------------------------------------------------- calculateSimilarity
\* Strings are sequences of characters.
Letters == {"a", "b"}

Strings == UNION {[1..n -> Letters] : n \in 0..MaxStr}

\* matrix[str2.length][str1.length] after the loops of levenshteinDistance
levenshteinDistance(str1, str2) ==
  LET matrix[i \in 0..Len(str2), j \in 0..Len(str1)] ==
        IF i = 0 THEN j
        ELSE IF j = 0 THEN i
        ELSE IF str2[i] = str1[j] THEN matrix[i - 1, j - 1]
        ELSE Min(matrix[i - 1, j - 1] + 1, Min(matrix[i, j - 1] + 1, matrix[i - 1, j] + 1))
  IN matrix[Len(str2), Len(str1)]

\* Variant that takes str1 for the longer string.
calculateSimilarityFirstLonger(str1, str2) ==
  IF Len(str1) = 0 THEN Unit
  ELSE ((Len(str1) - levenshteinDistance(str1, str2)) * Unit) \div Len(str1)

\* The similarity in ten-thousandths.
calculateSimilarity(str1, str2) ==
  LET longer == IF Len(str1) > Len(str2) THEN str1 ELSE str2
      shorter == IF Len(str1) > Len(str2) THEN str2 ELSE str1
  IN IF Len(longer) = 0 THEN Unit
     ELSE ((Len(longer) - levenshteinDistance(longer, shorter)) * Unit) \div Len(longer)

CallCalculateSimilarity ==
  /\ fn.name = "calculateSimilarity"
  /\ ret = << >>
  /\ ret' = <<calculateSimilarity(fn.arg.str1, fn.arg.str2)>>
  /\ UNCHANGED <<storeVars, aiVars, linksVars, ollamaVars, fn>>

\* ------------------------------------ analyzeSuspiciousLink, steps 4 and 5
\* trustScore arguments around the bounds 0.4 and the rounding.
ParseScores == {0, Pct(10), 3949, 3950, 3999, Pct(40), 5950, Pct(80), Unit}

CallAfterModel ==
  /\ fn.name = "analyzeSuspiciousLink.step4"
  /\ ret = << >>
  /\ ret' = <<AfterModel(fn.arg.response, fn.arg.trustScore)>>
  /\ UNCHANGED <<storeVars, aiVars, linksVars, ollamaVars, fn>>

\* ------------------------------------- analyzeLinksWithAI, steps 2 and 3
\* The external check of one link threw.
CheckThrew == << >>

\* Step 2 for one link: the external result that step 3 scores.
Step2Result(link, checks) ==
  IF isTrustedDomain(link.targetDomain) THEN SkippedExternal
  ELSE IF checks = CheckThrew THEN FailedCheck
  ELSE checkExternalServices(link, checks)

\* Steps 2 and 3 for one link.
CallStep3 ==
  /\ fn.name = "analyzeLinksWithAI.step3"
  /\ ret = << >>
  /\ ret' = <<Step3Verdict(fn.arg.link, Step2Result(fn.arg.link, fn.arg.checks))>>
  /\ UNCHANGED <<storeVars, aiVars, linksVars, ollamaVars, fn>>

\* ------------------------------------------- processAIAnalysis, one result
Ratings == {0, Pct(10), Pct(50), Pct(85), Pct(100)}

ScoredVerdicts ==
  {[trustScore |-> s, category |-> categorizeTrust(s), issues |-> << >>,
    gptSummary |-> NULL, recommendation |-> NULL, riskTags |-> NULL, confidence |-> Pct(70)] :
     s \in {0, Pct(15), Pct(35), Pct(68), Pct(80), Unit}}

\* What analyzeSuspiciousLink can return for a link with verdict v: null, a
\* validated answer of the model, or the result of a failed content fetch.
OllamaResults(v) ==
  {NoResult}
  \cup {AIResult(rec, rating) : rec \in {RecSafe, RecAvoid, RecCaution}, rating \in Ratings}
  \cup {AIResult(RecUnable, Max(0, Min(Pct(100), v.trustScore - Pct(20))))}

\* processAIAnalysis from the return of analyzeSuspiciousLink on.
CallApplyResult ==
  /\ fn.name = "processAIAnalysis"
  /\ ret = << >>
  /\ ret' = <<ApplyResult(fn.arg.verdict, fn.arg.ollamaResult)>>
  /\ UNCHANGED <<storeVars, aiVars, linksVars, ollamaVars, fn>>

InitPure ==
  /\ NoAnalysis
  /\ failedWrites = {}
  /\ NoOllama
  /\ nextId = 1
  /\ storageLocks = [u \in {} |-> NoCall]
  /\ pc = [c \in Calls |-> "idle"]
  /\ arg = [c \in Calls |-> NoArg]
  /\ cacheCutoff = [c \in Calls |-> 0]
  /\ existingId = [c \in Calls |-> 0]
  /\ owner = [c \in Calls |-> NoCall]
  /\ result = [c \in Calls |-> "pending"]
  /\ ret = << >>
  /\ \/ /\ link_scans = {} /\ now = 0
        /\ \/ \E u \in UrlInputs : fn = [name |-> "normalizeUrl", arg |-> u]
           \/ \E issues \in IssueLists, flags \in FlagSets, ext \in ExternalResults :
                fn = [name |-> "calculateTrustScore",
                      arg |-> [heuristics |-> [issues |-> issues, flags |-> flags],
                               externalResult |-> ext]]
           \/ \E v \in ScoredVerdicts : \E r \in OllamaResults(v) :
                fn = [name |-> "processAIAnalysis", arg |-> [verdict |-> v, ollamaResult |-> r]]
           \/ \E l \in HeuristicLinks : fn = [name |-> "calculateHeuristics", arg |-> l]
           \/ \E l \in {LnA, LnGit}, c \in ProviderChecks :
                fn = [name |-> "checkExternalServices", arg |-> [link |-> l, checks |-> c]]
           \/ \E l \in HeuristicLinks, c \in ExtOutcomes \cup {CheckThrew} :
                fn = [name |-> "analyzeLinksWithAI.step3", arg |-> [link |-> l, checks |-> c]]
           \/ \E str1 \in Strings, str2 \in Strings :
                fn = [name |-> "calculateSimilarity", arg |-> [str1 |-> str1, str2 |-> str2]]
           \/ \E r \in Responses, s \in ParseScores :
                fn = [name |-> "analyzeSuspiciousLink.step4",
                      arg |-> [response |-> r, trustScore |-> s]]
     \/ /\ link_scans \in LookupTables
        /\ now \in 0..MaxTime
        /\ \E urls \in LookupUrls : fn = [name |-> "getCachedScans", arg |-> urls]

NextPure ==
  \/ CallNormalizeUrl
  \/ CallCalculateTrustScore
  \/ CallApplyResult
  \/ CallCalculateHeuristics
  \/ CallCheckExternalServices
  \/ CallStep3
  \/ CallAfterModel
  \/ CallCalculateSimilarity
  \/ \E res \in QueryOutcomes : CachedScansDone(res)

SpecPure == InitPure /\ [][NextPure]_vars


\* ------------------------------------------------------------ store claims
\* The columns a write determines (row id and timestamps left out).
Content(db) ==
  {[url |-> r.url, verdict |-> RowVerdict(r), ollama_analysis |-> r.ollama_analysis] : r \in db}

\* One storeScanResult run on its own at time t, every query succeeding.
SerialStore(db, href, w, t) ==
  LET u == normalizeUrl(href)
      rows == SelectRecent(db, u, t - CACHE_TTL_HOURS)
  IN IF rows # {}
     THEN LET existing == CHOOSE r \in rows : TRUE
          IN IF shouldUpdate(existing, w) THEN UpdateById(db, existing.id, w) ELSE db
     ELSE InsertOnConflict(db, 1, u, href, w, t)

SerialPair(a, b) ==
  {Content(SerialStore(SerialStore({}, arg[a].href, arg[a].w, t1), arg[b].href, arg[b].w, t2)) :
     <<t1, t2>> \in {tt \in (0..now) \X (0..now) : tt[1] <= tt[2]}}

\* C1: when two storeScanResult calls for the same normalized URL overlap
\* (the second found the first one's promise in storageLocks) and no query
\* failed, the stored rows are those of the two writes applied one after the
\* other in some order.  Stated for the first two calls on the empty table.
C1_OverlappingWritesSerialized ==
  \A o \in Calls, w \in Calls :
    ( /\ o # w
      /\ pc[o] = "done" /\ pc[w] = "done"
      /\ owner[w] = o
      /\ result[o] \in {"stored", "unchanged"}
      /\ \A x \in Calls \ {o, w} : pc[x] = "idle" )
    => Content(link_scans) \in (SerialPair(o, w) \cup SerialPair(w, o))

\* C2: when the only row of a URL is stale, a storeScanResult for that URL
\* whose queries succeed makes the URL live again: right after it ends,
\* getCachedScans returns the verdict it wrote.
C2_StaleUrlBecomesLive ==
  [][\A c \in Calls :
       ( /\ pc[c] \in {"select", "update", "insert"}
         /\ pc'[c] = "done"
         /\ result'[c] \in {"stored", "unchanged"}
         /\ UniqueViolation(link_scans, Url(c))
         /\ SelectRecent(link_scans, Url(c), now - CACHE_TTL_HOURS) = {} )
       => LET cached == getCachedScans(link_scans', {Url(c)}, now, "ok")
          IN /\ Url(c) \in DOMAIN cached
             /\ cached[Url(c)].trustScore = arg[c].w.verdict.trustScore
             /\ cached[Url(c)].category = arg[c].w.verdict.category]_vars

\* The row is a cache hit at the current time (now - created_at <= 24h).
LiveNow(r) == now - r.created_at <= CACHE_TTL_HOURS

AIFields(r) == <<r.gpt_summary, r.ollama_analysis, r.recommendation, r.risk_tags>>

\* C3: a write whose verdict carries no AI summary leaves gpt_summary,
\* ollama_analysis, recommendation and risk_tags of the live rows unchanged,
\* and no write replaces a stored AI summary of a live row by null.
C3_AILessWriteKeepsAISummary ==
  [][\A r \in link_scans : LiveNow(r) =>
       \E q \in link_scans' :
          /\ q.id = r.id
          /\ r.gpt_summary # NULL => q.gpt_summary # NULL
          /\ (\A c \in Calls : pc'[c] # pc[c] => arg'[c].w.verdict.gptSummary = NULL)
               => AIFields(q) = AIFields(r)]_vars

\* An AI-less write was stored over a live row that holds an AI summary.
C3_Witness ==
  \E a \in Calls, h \in Calls :
    /\ a < h
    /\ Url(a) = Url(h)
    /\ result[a] = "stored" /\ arg[a].w = AIWrite
    /\ result[h] = "stored" /\ arg[h].w = HeurWrite
    /\ \E r \in link_scans :
         /\ r.url = Url(h) /\ LiveNow(r)
         /\ r.trust_score = HeurWrite.verdict.trustScore
         /\ r.gpt_summary = AIWrite.verdict.gptSummary

\* The key the specification gives a link: fragment stripped, one trailing
\* slash of a non-root path dropped.
C10_Key(href) ==
  [scheme |-> href.scheme, host |-> href.host,
   path |-> IF href.path = << >> THEN <<"/">>
            ELSE IF Len(href.path) > 1 /\ href.path[Len(href.path)] = "/"
                 THEN SubSeq(href.path, 1, Len(href.path) - 1)
                 ELSE href.path]

\* C10: at most one non-stale row per normalized URL, in every reachable
\* state: two live rows never stem from links with the same normalized URL.
C10_OneLiveRowPerUrl ==
  \A r1 \in link_scans, r2 \in link_scans :
    (LiveNow(r1) /\ LiveNow(r2) /\ C10_Key(r1.src) = C10_Key(r2.src)) => r1 = r2

\* Two writes through different hrefs of one normalized URL were stored and
\* the URL has exactly one live row.
C10_Witness ==
  \E a \in Calls, b \in Calls :
    /\ arg[a].href # arg[b].href /\ Url(a) = Url(b)
    /\ result[a] = "stored" /\ result[b] = "stored"
    /\ Cardinality({r \in link_scans : r.url = Url(a) /\ LiveNow(r)}) = 1

\* ------------------------------------------------------ orchestrator claims
Indices(item) == {item.originalIndices[n] : n \in 1..Len(item.originalIndices)}

\* The positions that step 3 put on the AI queue.
QueuedPositions == UNION {Indices(queue[k]) : k \in 1..Len(queue)}

ItemOf(i) == CHOOSE k \in 1..Len(queue) : i \in Indices(queue[k])

\* Calls of analyzeSuspiciousLink for URL u.
Invocations(u) == Cardinality({n \in 1..Len(aiCalls) : NUrl(aiCalls[n]) = u})

UpdatesTo(i) == {n \in 1..Len(updates) : updates[n].index = i}

\* The caller passes the gate of processAIAnalysis.
AIPermitted ==
  userId = NULL \/ allowAIWithoutAuth \/ userPlan \in {"premium", "trial"}

\* C4: when two positions of one batch were queued for AI and normalize to
\* the same URL, analyzeSuspiciousLink is called at most once for that URL,
\* and exactly once when the processing of the item has resolved for a caller
\* who may use AI; from then on both positions refer to the same verdict
\* object and, when a callback was passed, each got exactly one update, with
\* that verdict.
C4_DuplicateUrlAnalyzedOnce ==
  \A i, j \in QueuedPositions :
    (i # j /\ NUrl(i) = NUrl(j)) =>
      /\ Invocations(NUrl(i)) <= 1
      /\ stage[ItemOf(i)] = "done" =>
           /\ AIPermitted => Invocations(NUrl(i)) = 1
           /\ analyses[i] = analyses[j]
           /\ onUpdate =>
                /\ Cardinality(UpdatesTo(i)) = 1
                /\ Cardinality(UpdatesTo(j)) = 1
                /\ \A n \in UpdatesTo(i) \cup UpdatesTo(j) : updates[n].verdict = Deref(i)

C4_Witness ==
  \E k \in 1..Len(queue) :
    /\ Len(queue[k].originalIndices) >= 2
    /\ stage[k] = "done"
    /\ Invocations(queue[k].url) = 1
    /\ verdicts[queue[k].first].recommendation = RecAvoid
    /\ onUpdate
    /\ \A i \in Indices(queue[k]) : Cardinality(UpdatesTo(i)) = 1 /\ analyses[i] = queue[k].first

\* C5: the array that the awaiting caller receives holds, for every link
\* that the cache did not serve, the initial verdict: nothing that the AI
\* service produced in this call.
C5_ReturnedVerdictsAreInitial ==
  observed # << >> =>
    \A i \in linksToAnalyze :
      observed[i].recommendation = NULL /\ observed[i].gptSummary # "ai_summary"

\* The processAIAnalysis call of item k has not settled.
InFlight(k) == stage[k] \in {"plan", "model", "ai_resume"}

Settled(k) == stage[k] \in {"loop_resume", "loop_reject", "done", "failed"}

C7_Rank(i) ==
  IF priorityUrl.valid /\ NUrl(i) = normalizeUrl(priorityUrl) THEN 0
  ELSE CHOOSE j \in QueuedPositions :
         NUrl(j) = NUrl(i) /\ \A m \in QueuedPositions : NUrl(m) = NUrl(i) => j <= m

\* C7: the updates of a batch are delivered for the priority URL first and
\* then in the order in which the URLs were queued.
C7_UpdatesInPriorityThenQueueOrder ==
  \A n, m \in 1..Len(updates) :
    n < m => C7_Rank(updates[n].index) <= C7_Rank(updates[m].index)

C7_Witness ==
  /\ Len(updates) = 3
  /\ C7_Rank(updates[1].index) = 0
  /\ updates[1].index > updates[3].index
  /\ updates[2].index < updates[3].index
  /\ Cardinality({NUrl(updates[n].index) : n \in 1..3}) = 3

\* No result of analyzeSuspiciousLink has been applied to a verdict.
Unapplied == \A k \in 1..Len(queue) : stage[k] \in {"queued", "plan", "model", "ai_resume"}

C8_ObviouslyDangerous(i) ==
  verdicts[i].trustScore < 2000 /\ externalCheckResults[i].threatCount > 0

C8_ObviouslySafe(i) ==
  \/ (verdicts[i].trustScore > 8000 /\ verdicts[i].issues = << >>)
  \/ /\ verdicts[i].trustScore > 8500
     /\ externalCheckResults[i].safe
     /\ externalCheckResults[i].confidence > 8000

\* C8: when the call returns, a link that the cache did not serve is on the
\* AI queue exactly if a user id or the override is present and the link is
\* neither obviously dangerous nor obviously safe; and only queued links
\* are ever passed to analyzeSuspiciousLink.
C8_QueuedIffNotObvious ==
  /\ (apc = "returned" /\ Unapplied) =>
       \A i \in linksToAnalyze :
         i \in QueuedPositions <=>
           /\ (userId # NULL \/ allowAIWithoutAuth)
           /\ ~C8_ObviouslyDangerous(i)
           /\ ~C8_ObviouslySafe(i)
  /\ \A n \in 1..Len(aiCalls) : aiCalls[n] \in QueuedPositions

C8_Witness ==
  /\ apc = "returned"
  /\ Unapplied
  /\ \E i, j, m \in linksToAnalyze :
       /\ i \in QueuedPositions
       /\ C8_ObviouslyDangerous(j) /\ j \notin QueuedPositions
       /\ C8_ObviouslySafe(m) /\ ~isTrustedDomain(links[m].targetDomain)
       /\ m \notin QueuedPositions

C9_OnAllowList(i) ==
  \/ links[i].targetDomain \in KNOWN_SAFE_DOMAINS
  \/ BaseDomain(links[i].targetDomain) \in KNOWN_SAFE_DOMAINS

C13_CategoryFollowsScore ==
  /\ \A i \in DOMAIN observed :
       observed[i] # Hole => observed[i].category = categorizeTrust(observed[i].trustScore)
  /\ \A n \in DOMAIN updates :
       updates[n].verdict.category = categorizeTrust(updates[n].verdict.trustScore)

\* The caller has no user id or is on the free plan, and the override is off.
NotEntitled ==
  ~allowAIWithoutAuth /\ (userId = NULL \/ userPlan \notin {"premium", "trial"})

C17_FromModel(v) ==
  v.gptSummary = "ai_summary" \/ v.recommendation # NULL \/ v.riskTags # NULL

\* C17: for a caller without identity or on the free plan
\* analyzeSuspiciousLink is never called, and no verdict that the caller
\* receives or that is delivered to it carries a summary, a recommendation
\* or risk tags that the language model produced.
C17_NoModelOutputWithoutPlan ==
  NotEntitled =>
    /\ aiCalls = << >>
    /\ \A i \in DOMAIN observed : ~C17_FromModel(observed[i])
    /\ \A n \in DOMAIN updates : ~C17_FromModel(updates[n].verdict)

\* --------------------------------------------------------- function claims
\* C11: a successful lookup returns an entry for a URL exactly when the
\* table holds a row for its normalized form that was created at most 24
\* hours ago, the 24th hour included.
C11_FreshRowsAreHits ==
  [][(fn.name = "getCachedScans" /\ CachedScansDone("ok")) =>
       \A u \in fn.arg :
         normalizeUrl(u) \in DOMAIN ret'[1] <=>
           \E r \in link_scans :
             r.url = normalizeUrl(u) /\ now - r.created_at <= CACHE_TTL_HOURS]_vars

\* C12: calculateTrustScore returns a score between 0 and 1, and the
\* trustScore of a verdict is between 0 and 1 after the result of the AI
\* service has been applied to it.
C12_TrustScoreInUnitInterval ==
  /\ (fn.name = "calculateTrustScore" /\ ret # << >>) => (0 <= ret[1] /\ ret[1] <= Unit)
  /\ (fn.name = "processAIAnalysis" /\ ret # << >>) =>
       (0 <= ret[1].trustScore /\ ret[1].trustScore <= Unit)

\* Every penalty at once, without an external result: the sum is clamped to 0.
C12_Witness ==
  /\ fn.name = "calculateTrustScore"
  /\ ret = <<0>>
  /\ fn.arg.heuristics.issues = PenaltyIssues
  /\ fn.arg.externalResult = NoExternalResult

\* C14: normalizeUrl applied to its own result returns it unchanged.
C14_NormalizeUrlIdempotent ==
  (fn.name = "normalizeUrl" /\ ret # << >>) => normalizeUrl(ret[1]) = ret[1]

C15_Good(checks) == {k \in 1..4 : checks[k].settled /\ checks[k].details}

C15_Threats(checks) ==
  Cardinality({k \in C15_Good(checks) : ~checks[k].safe /\ checks[k].confidence > Pct(50)})

C15_Cleans(checks) ==
  Cardinality({k \in C15_Good(checks) : checks[k].safe /\ checks[k].confidence > Pct(50)})

\* C15: checkExternalServices is fulfilled whatever the four provider calls
\* do, and for a link that is not trusted its result is the aggregate of the
\* providers that neither rejected nor answered with an error: their threat
\* count, safe exactly when that count is 0, and the confidence computed
\* from their confident reports.
C15_FailedProvidersAreIgnored ==
  (fn.name = "checkExternalServices" /\ ret # << >>) =>
    /\ ret[1].status = "fulfilled"
    /\ ~isTrustedDomain(fn.arg.link.targetDomain) =>
         LET t == C15_Threats(fn.arg.checks)
             c == C15_Cleans(fn.arg.checks)
         IN /\ ret[1].value.threatCount = t
            /\ ret[1].value.safe = (t = 0)
            /\ ret[1].value.confidence =
                 (IF t + c = 0 THEN Pct(50)
                  ELSE Min(Pct(95), (c * Pct(90)) \div (t + c) + (IF t > 0 THEN 0 ELSE Pct(10))))
            /\ \A k \in 1..Len(ret[1].value.sources) : ret[1].value.sources[k].settled

\* One provider rejects, one answers with an error, one reports a threat and
\* one reports the URL clean.
C15_Witness ==
  /\ fn.name = "checkExternalServices"
  /\ fn.arg.link = LnA
  /\ fn.arg.checks = <<ProviderRejected, Unconfigured, Threat(Pct(95)), Clean(Pct(80))>>
  /\ ret # << >>
  /\ ret[1].status = "fulfilled"
  /\ ret[1].value.threatCount = 1
  /\ ret[1].value.confidence = Pct(45)

C18_Has(issues, issue) == \E k \in 1..Len(issues) : issues[k] = issue

\* The href is not https, the heuristics find nothing else, and the link has
\* no rel attribute.
C18_OnlyNoHttps(link) ==
  /\ link.href.valid
  /\ link.href.scheme # "https"
  /\ link.rel = ""
  /\ calculateHeuristics(link).issues = <<"no_https">>

C18_ReportsNoHttps ==
  (fn.name = "calculateHeuristics" /\ ret # << >> /\ fn.arg.href.valid
     /\ fn.arg.href.scheme # "https") => C18_Has(ret[1].issues, "no_https")

\* C18 as stated: calculateHeuristics reports no_https for every link
\* whose href is not https, and the initial verdict of such a link with no
\* other issue and no rel attribute is never SAFE, whatever the external
\* result.
C18_NonHttpsNeverSafe ==
  /\ C18_ReportsNoHttps
  /\ (fn.name = "analyzeLinksWithAI.step3" /\ ret # << >> /\ C18_OnlyNoHttps(fn.arg.link))
       => ret[1].category # "SAFE"

\* C18, amended: calculateHeuristics reports no_https for every link whose
\* href is not https, and the initial verdict of such a link with no other
\* issue and no rel attribute is never SAFE, whatever the external result,
\* provided neither its hostname nor its target domain is on the trusted
\* allow-list.
C18_NonHttpsOffAllowListNeverSafe ==
  /\ C18_ReportsNoHttps
  /\ (fn.name = "analyzeLinksWithAI.step3" /\ ret # << >> /\ C18_OnlyNoHttps(fn.arg.link)
        /\ ~isTrustedDomain(fn.arg.link.targetDomain)
        /\ ~isTrustedDomain(fn.arg.link.href.host))
       => ret[1].category # "SAFE"

\* A plain http link off the allow-list that every provider reports clean:
\* the score is 0.68.
C18_Witness ==
  /\ fn.name = "analyzeLinksWithAI.step3"
  /\ fn.arg.link.href.scheme = "http"
  /\ fn.arg.link.href.host = ShopHost
  /\ fn.arg.link.targetDomain = ShopHost
  /\ C18_OnlyNoHttps(fn.arg.link)
  /\ fn.arg.checks = ExtAllClean
  /\ ret # << >>
  /\ ret[1].trustScore = Pct(68)
  /\ ret[1].category = "SUSPICIOUS"

\* The hostname, or its last two labels, is a URL shortener.
C19_IsShortener(host) ==
  \/ host \in URL_SHORTENERS
  \/ (Len(host) >= 2 /\ <<host[Len(host) - 1], host[Len(host)]>> \in URL_SHORTENERS)

\* C19: calculateHeuristics reports short_url for every link whose hostname
\* or whose last-two-label base domain is in the set of URL shorteners.
C19_ShortenersAreFlagged ==
  (fn.name = "calculateHeuristics" /\ ret # << >> /\ fn.arg.href.valid
     /\ C19_IsShortener(fn.arg.href.host)) => C18_Has(ret[1].issues, "short_url")

\* A link to a subdomain of a shortener.
C19_Witness ==
  /\ fn.name = "calculateHeuristics"
  /\ fn.arg.href.valid
  /\ fn.arg.href.host = <<"go", "bit", "ly">>
  /\ ret # << >>
  /\ C18_Has(ret[1].issues, "short_url")

\* C20: calculateHeuristics reports punycode for every link whose hostname
\* has a label that starts with xn--.
C20_PunycodeIsFlagged ==
  (fn.name = "calculateHeuristics" /\ ret # << >> /\ fn.arg.href.valid
     /\ \E k \in 1..Len(fn.arg.href.host) : fn.arg.href.host[k] = "xn--pple")
    => C18_Has(ret[1].issues, "punycode")

\* A link whose second label is the punycode label.
C20_Witness ==
  /\ fn.name = "calculateHeuristics"
  /\ fn.arg.href.valid
  /\ fn.arg.href.host = <<"www", "xn--pple", "io">>
  /\ ret # << >>
  /\ C18_Has(ret[1].issues, "punycode")

\* C16: a call of analyzeLinks is never rejected, whichever query of the
\* store fails, and when it returns it returns a verdict for every link.
C16_StoreFailuresAreTolerated ==
  /\ apc # "rejected"
  /\ apc = "returned" => Len(observed) = Len(links)

\* The hostname, or its last two labels, is on the allow-list.
C21_OnAllowList(host) ==
  \/ host \in KNOWN_SAFE_DOMAINS
  \/ (Len(host) >= 2 /\ <<host[Len(host) - 1], host[Len(host)]>> \in KNOWN_SAFE_DOMAINS)

\* C21: for a link whose href parses, calculateHeuristics sets isKnownSafe
\* to true when the hostname or its last-two-label base domain is on the
\* allow-list, and to false otherwise.
C21_KnownSafeIffAllowListed ==
  (fn.name = "calculateHeuristics" /\ ret # << >> /\ fn.arg.href.valid)
    => (ret[1].flags.isKnownSafe <=> C21_OnAllowList(fn.arg.href.host))

\* A subdomain of an allow-listed domain.
C21_Witness ==
  /\ fn.name = "calculateHeuristics"
  /\ fn.arg.href.valid
  /\ fn.arg.href.host = <<"docs", "github", "com">>
  /\ ret # << >>
  /\ ret[1].flags.isKnownSafe

\* The call registered its own promise in storageLocks and has not ended.
C22_Running(c) == pc[c] \notin {"idle", "waiting", "done"}

\* C22: on the step that ends a storeScanResult run, whatever its outcome,
\* storageLocks has no entry for its URL any more, and every entry of
\* storageLocks belongs to a run that has not ended, so that a later call
\* for the URL issues its own queries.
C22_LockReleasedAtEnd ==
  [][/\ \A c \in Calls :
          (C22_Running(c) /\ pc'[c] = "done") => Url(c) \notin DOMAIN storageLocks'
     /\ \A u \in DOMAIN storageLocks' : pc'[storageLocks'[u]] \notin {"idle", "waiting", "done"}]_vars

\* The first run ended with a logged database error; the second call for
\* the same URL ran its own statements and stored the row.
C22_Witness ==
  /\ pc[1] = "done" /\ pc[2] = "done"
  /\ result[1] = "failed"
  /\ result[2] = "stored"
  /\ Url(1) = Url(2)
  /\ storageLocks = << >>


\* Any two health probes started by isOllamaAvailable are at least
\* OLLAMA_CHECK_INTERVAL minutes apart.
C23_ProbesSpaced ==
  \A i, j \in DOMAIN probes :
    i < j => probes[j] - probes[i] >= OLLAMA_CHECK_INTERVAL

\* An analysis that starts while the availability recorded less than
\* OLLAMA_CHECK_INTERVAL minutes ago is false ends at once, from the cache or
\* with no verdict, without content fetch or model call.
C23_NoCallWhileUnavailable ==
  [][\A c \in DOMAIN acall :
       (/\ acall[c].pc = "idle" /\ acall'[c].pc # "idle"
        /\ ollamaAvailable = "false"
        /\ minute - ollamaLastCheck < OLLAMA_CHECK_INTERVAL)
         => (acall'[c].pc = "done" /\ acall'[c].how \in {"cached", "unavailable"})]_vars

\* C23: across any sequence of analyses, isOllamaAvailable starts a health
\* probe at most once in any window of OLLAMA_CHECK_INTERVAL minutes, whatever
\* the earlier probe found, and no model call is attempted while the recorded
\* availability is false.
C23_OneProbePerWindow == []C23_ProbesSpaced /\ C23_NoCallWhileUnavailable


\* The step on which analyzeSuspiciousLink is called for call c.
C24_Called(c) == acall[c].pc = "idle" /\ acall'[c].pc # "idle"

\* Age in minutes of the cached verdict of call c's URL at that step.
C24_Age(c) == minute - ollamaEntries[normalizeUrl(acall'[c].href)].timestamp

\* C24: a call for a URL whose normalized form has a cached verdict less than
\* CACHE_TTL minutes old returns that verdict at once, with no health probe,
\* content fetch or model call; once the verdict is CACHE_TTL minutes old or
\* older the call does not return it and goes on to a new analysis.
C24_CachedVerdictServedFor12Hours ==
  [][\A c \in DOMAIN acall :
       (C24_Called(c) /\ normalizeUrl(acall'[c].href) \in DOMAIN ollamaEntries)
         => IF C24_Age(c) < CACHE_TTL
            THEN /\ acall'[c].pc = "done"
                 /\ acall'[c].how = "cached"
                 /\ acall'[c].result = ollamaEntries[normalizeUrl(acall'[c].href)].result
                 /\ probes' = probes
                 /\ ollamaEntries' = ollamaEntries
            ELSE /\ acall'[c].how # "cached"
                 /\ acall'[c].result = NoResult
                 /\ \/ acall'[c].pc \in {"probe", "fetch"}
                    \/ (ollamaAvailable = "false" /\ AvailabilityKnown)]_vars

\* The second call gets, 719 minutes later and under another spelling of the
\* URL, the verdict the first call cached.
C24_Witness ==
  /\ acall[1].how = "parsed"
  /\ acall[2].how = "cached"
  /\ acall[2].href # acall[1].href
  /\ acall[2].result = acall[1].result
  /\ normalizeUrl(acall[2].href) \in DOMAIN ollamaEntries
  /\ minute - ollamaEntries[normalizeUrl(acall[2].href)].timestamp = CACHE_TTL - 1

\* The second call starts a new analysis of a URL whose verdict is exactly
\* CACHE_TTL minutes old.
C24_WitnessExpired ==
  /\ acall[1].how = "parsed"
  /\ acall[2].pc = "fetch"
  /\ normalizeUrl(acall[2].href) \in DOMAIN ollamaEntries
  /\ minute - ollamaEntries[normalizeUrl(acall[2].href)].timestamp = CACHE_TTL


\* The ways an analysis ends without a parsed verdict: runtime unavailable,
\* content not fetched, no response of the model, no object in the response.
C25_Failures == {"unavailable", "degraded", "empty", "fallback"}

\* The step on which call c returns after a failure.
C25_Fails(c) ==
  acall[c].pc # "done" /\ acall'[c].pc = "done" /\ acall'[c].how \in C25_Failures

C26_Returned(c) == acall[c].pc = "done" /\ acall[c].result # NoResult

C26_Canonical == {RecSafe, RecCaution, RecAvoid}

\* C26 as stated: every verdict returned, the degraded one included, has a
\* safetyRating from 0 to 100 and one of the three recommendations.
C26_EveryVerdictCanonical ==
  \A c \in DOMAIN acall :
    C26_Returned(c) =>
      /\ acall[c].result.safetyRating \in 0..Pct(100)
      /\ acall[c].result.followRecommendation \in C26_Canonical

\* C26: every verdict returned has a safetyRating from 0 to 100; the parsed,
\* cached and fallback verdicts carry one of the three recommendations, and
\* the degraded verdict the text RecUnable in its place.
C26_VerdictsCanonicalUnlessDegraded ==
  \A c \in DOMAIN acall :
    C26_Returned(c) =>
      /\ acall[c].result.safetyRating \in 0..Pct(100)
      /\ acall[c].how \in {"parsed", "cached", "fallback", "degraded"}
      /\ IF acall[c].how = "degraded"
         THEN acall[c].result.followRecommendation = RecUnable
         ELSE acall[c].result.followRecommendation \in C26_Canonical
      /\ \A k \in DOMAIN ollamaEntries :
           /\ ollamaEntries[k].result.safetyRating \in 0..Pct(100)
           /\ ollamaEntries[k].result.followRecommendation \in C26_Canonical

\* The model's rating 150 with the text "unsafe - avoid" was returned as
\* 100 / SAFE_TO_FOLLOW, and another call returned the degraded verdict.
C26_Witness ==
  /\ acall[1].how = "parsed"
  /\ acall[1].result = AIResult(RecSafe, Pct(100))
  /\ acall[2].pc = "done"
  /\ acall[2].how = "degraded"
  /\ acall[2].result.safetyRating = 0


\* The step on which call c returns because the content was not fetched.
C27_FetchFails(c) == acall[c].pc # "done" /\ acall'[c].pc = "done" /\ acall'[c].how = "degraded"

\* 100 * trustScore - 20, kept within 0 and 100.
C27_Penalized(trustScore) ==
  IF trustScore - Pct(20) < 0 THEN 0
  ELSE IF trustScore - Pct(20) > Pct(100) THEN Pct(100)
  ELSE trustScore - Pct(20)

\* C27: when the content fetch fails or yields no text the call returns at
\* once, with no call of the model, a verdict whose safetyRating is
\* 100 * trustScore - 20 kept within 0 and 100; the score processAIAnalysis
\* computes from that verdict is never above the trustScore before it.
C27_DegradedVerdictNeverRaisesScore ==
  [][\A c \in DOMAIN acall :
       C27_FetchFails(c) =>
         /\ acall[c].pc = "fetch"
         /\ acall'[c].result # NoResult
         /\ acall'[c].result.safetyRating = C27_Penalized(acall[c].trustScore)
         /\ UNCHANGED <<ollamaAvailable, ollamaLastCheck, ollamaEntries>>
         /\ aiScore(acall'[c].result.followRecommendation,
                    acall'[c].result.safetyRating,
                    acall[c].trustScore) <= acall[c].trustScore]_vars

\* A call with trustScore 0.595 returned the degraded verdict, rated 39.5,
\* which lowers the score to 0.475.
C27_Witness ==
  /\ acall[1].how = "degraded"
  /\ acall[1].trustScore = 5950
  /\ acall[1].result.safetyRating = 3950
  /\ aiScore(acall[1].result.followRecommendation, 3950, 5950) = 4750


\* The first of the whole response, the fenced code block and the
\* first-{ to last-} substring that is an object.
C28_FirstObject(response) ==
  IF response.whole.kind = "object" THEN response.whole
  ELSE IF response.fenced.kind = "object" THEN response.fenced
  ELSE IF response.braces.kind = "object" THEN response.braces
  ELSE NotFound

\* rating is 100 * trustScore rounded to a whole number, halves upwards.
C28_IsRounded(rating, trustScore) ==
  /\ rating % 100 = 0
  /\ rating > trustScore - 50
  /\ rating <= trustScore + 50

\* C28: the verdict is built from the first of the three texts, in the order
\* whole response, fenced code block, first-{ to last-} substring, that is an
\* object; when none is, the fallback verdict is returned, rated
\* round(100 * trustScore), AVOID below 0.4 and CAUTION_ADVISED otherwise.
C28_FirstStrategyWins ==
  (fn.name = "analyzeSuspiciousLink.step4" /\ ret # << >>) =>
    IF C28_FirstObject(fn.arg.response).kind = "object"
    THEN /\ ret[1].how = "parsed"
         /\ ret[1].result =
              ValidatedResult(C28_FirstObject(fn.arg.response).obj[1], fn.arg.trustScore)
    ELSE /\ ret[1].how = "fallback"
         /\ ret[1].result # NoResult
         /\ C28_IsRounded(ret[1].result.safetyRating, fn.arg.trustScore)
         /\ ret[1].result.followRecommendation =
              (IF fn.arg.trustScore < Pct(40) THEN RecAvoid ELSE RecCaution)

\* The part of C28 that holds: whenever the fallback verdict is returned it
\* is rated round(100 * trustScore) and is AVOID below 0.4, CAUTION_ADVISED
\* otherwise; and a response that is not valid JSON as a whole is parsed by
\* the fenced code block, then by the substring.
C28_FallbackIsConservative ==
  (fn.name = "analyzeSuspiciousLink.step4" /\ ret # << >>) =>
    /\ ret[1].how = "fallback" =>
         /\ C28_IsRounded(ret[1].result.safetyRating, fn.arg.trustScore)
         /\ ret[1].result.followRecommendation =
              (IF fn.arg.trustScore < Pct(40) THEN RecAvoid ELSE RecCaution)
    /\ fn.arg.response.whole.kind # "value" =>
         (ret[1].how = "parsed") = (C28_FirstObject(fn.arg.response).kind = "object")


\* x kept within lo and hi.
C29_Clamped(x, lo, hi) == IF x < lo THEN lo ELSE IF x > hi THEN hi ELSE x

\* score is 0.6 * r + 0.4 * s, to the ten-thousandth.
C29_IsBlend(score, r, s) == 10 * score <= 6 * r + 4 * s /\ 6 * r + 4 * s < 10 * score + 10

C29_ByThresholds(score) ==
  IF score >= Pct(70) THEN "SAFE" ELSE IF score >= Pct(40) THEN "SUSPICIOUS" ELSE "DANGEROUS"

\* C29: applying an AI verdict with rating r to a verdict with score s gives,
\* for SAFE_TO_FOLLOW, r kept within 0.7 and 1 and SAFE; for AVOID, r kept
\* within 0 and 0.3 and DANGEROUS; for CAUTION_ADVISED, r kept within 0.4 and
\* 0.69 and SUSPICIOUS; for any other recommendation 0.6 r + 0.4 s and the
\* category of that score.
C29_RecommendationDecidesScore ==
  (fn.name = "processAIAnalysis" /\ ret # << >> /\ fn.arg.ollamaResult # NoResult) =>
    LET r == fn.arg.ollamaResult.safetyRating
        rec == fn.arg.ollamaResult.followRecommendation
        s == fn.arg.verdict.trustScore
        out == ret[1]
    IN  /\ rec = RecSafe =>
             (out.trustScore = C29_Clamped(r, Pct(70), Unit) /\ out.category = "SAFE")
        /\ rec = RecAvoid =>
             (out.trustScore = C29_Clamped(r, 0, Pct(30)) /\ out.category = "DANGEROUS")
        /\ rec = RecCaution =>
             (out.trustScore = C29_Clamped(r, Pct(40), Pct(69)) /\ out.category = "SUSPICIOUS")
        /\ rec \notin {RecSafe, RecAvoid, RecCaution} =>
             /\ C29_IsBlend(out.trustScore, r, s)
             /\ out.category = C29_ByThresholds(out.trustScore)

\* A verdict scored 0.15 was given SAFE_TO_FOLLOW with rating 50 and became
\* SAFE with score 0.7.
C29_Witness ==
  /\ fn.name = "processAIAnalysis"
  /\ ret # << >>
  /\ fn.arg.verdict.trustScore = Pct(15)
  /\ fn.arg.ollamaResult = AIResult(RecSafe, Pct(50))
  /\ ret[1].trustScore = Pct(70)
  /\ ret[1].category = "SAFE"

\* A verdict scored 0.80 was given the degraded verdict, rated 60, and became
\* SUSPICIOUS with score 0.68.
C29_WitnessBlend ==
  /\ fn.name = "processAIAnalysis"
  /\ ret # << >>
  /\ fn.arg.verdict.trustScore = Pct(80)
  /\ fn.arg.ollamaResult = AIResult(RecUnable, Pct(60))
  /\ ret[1].trustScore = Pct(68)
  /\ ret[1].category = "SUSPICIOUS"


\* The provider calls that were fulfilled with a confidence above 0.5.
C30_Confident(checks) == {k \in 1..4 : checks[k].settled /\ checks[k].confidence > Pct(50)}

\* checks with the results of the other providers replaced by others.
C30_SameConfident(checks) ==
  {other \in ProviderChecks :
     /\ C30_Confident(other) = C30_Confident(checks)
     /\ \A k \in C30_Confident(checks) : other[k] = checks[k]}

\* C30: for a URL that is not trusted the aggregate's threatCount is the
\* number of provider results with safe = false and confidence above 0.5, safe
\* is true exactly when that number is 0, the confidence is at most 0.95, and
\* replacing the results whose confidence is 0.5 or less by other such
\* results changes neither safe nor threatCount.
C30_ConfidentThreatsDecide ==
  (/\ fn.name = "checkExternalServices" /\ ret # << >>
   /\ ~isTrustedDomain(fn.arg.link.targetDomain)) =>
    /\ ret[1].status = "fulfilled"
    /\ ret[1].value.threatCount =
         Cardinality({k \in C30_Confident(fn.arg.checks) : ~fn.arg.checks[k].safe})
    /\ ret[1].value.safe <=> (ret[1].value.threatCount = 0)
    /\ ret[1].value.confidence <= Pct(95)
    /\ \A other \in C30_SameConfident(fn.arg.checks) :
         /\ checkExternalServices(fn.arg.link, other).safe = ret[1].value.safe
         /\ checkExternalServices(fn.arg.link, other).threatCount = ret[1].value.threatCount

\* Two providers report clean with confidence 0.8, one has its scan pending
\* (0.5) and one is not configured: safe, no threat, confidence 0.95.
C30_Witness ==
  /\ fn.name = "checkExternalServices"
  /\ fn.arg.link = LnA
  /\ fn.arg.checks = <<Clean(Pct(80)), Clean(Pct(50)), Clean(Pct(80)), Unconfigured>>
  /\ ret # << >>
  /\ ret[1].value.safe
  /\ ret[1].value.threatCount = 0
  /\ ret[1].value.confidence = Pct(95)

\* One confident threat beside a pending scan and a clean report: unsafe,
\* one threat, confidence 0.45.
C30_WitnessThreat ==
  /\ fn.name = "checkExternalServices"
  /\ fn.arg.link = LnA
  /\ fn.arg.checks = <<Threat(Pct(95)), Clean(Pct(50)), Unconfigured, Clean(Pct(80))>>
  /\ ret # << >>
  /\ ~ret[1].value.safe
  /\ ret[1].value.threatCount = 1
  /\ ret[1].value.confidence = Pct(45)


\* C31: calculateSimilarity(a, b) = calculateSimilarity(b, a) for all strings
\* a and b, of equal or different length, the empty string included.
C31_SimilarityIsSymmetric ==
  (fn.name = "calculateSimilarity" /\ ret # << >>) =>
    ret[1] = calculateSimilarity(fn.arg.str2, fn.arg.str1)

\* "a" against "abb": two edits over three characters.
C31_Witness ==
  /\ fn.name = "calculateSimilarity"
  /\ fn.arg.str1 = <<"a">>
  /\ fn.arg.str2 = <<"a", "b", "b">>
  /\ ret = <<3333>>

\* The empty string against "ab": similarity 0.
C31_WitnessEmpty ==
  /\ fn.name = "calculateSimilarity"
  /\ fn.arg.str1 = << >>
  /\ fn.arg.str2 = <<"a", "b">>
  /\ ret = <<0>>


\* Call c of analyzeSuspiciousLink awaits the content fetch or the model.
C32_InFlight(c) == acall[c].pc \in {"fetch", "model"}

\* C32: at any time at most one AI analysis (content fetch and model call)
\* is in flight for one normalized URL, whichever analyze calls the
\* analyses come from.
C32_OneAnalysisPerUrl ==
  \A c, d \in DOMAIN acall :
    (c # d /\ C32_InFlight(c) /\ C32_InFlight(d))
      => normalizeUrl(acall[c].href) # normalizeUrl(acall[d].href)


\* The background function of analyzeLinksWithAI has nothing left to wait
\* for: the call has returned, no continuation is pending and no item awaits
\* the user-plan lookup or the model.
C33_Quiescent ==
  /\ apc = "returned"
  /\ microtasks = << >>
  /\ \A k \in DOMAIN stage : stage[k] \in {"queued", "done", "failed"}

\* C33: an error raised while one queued item is processed, the priority item
\* included, does not keep the other queued items from being processed: when
\* the background function has come to rest no item is left unattempted.
C33_EveryQueuedItemAttempted ==
  C33_Quiescent => \A k \in DOMAIN stage : stage[k] # "queued"

\* The part of C33 that holds: an error in an item other than the priority
\* item leaves no later item unattempted.
C33_RegularErrorsAreAbsorbed ==
  (C33_Quiescent /\ ~(prio /\ 1 \in DOMAIN stage /\ stage[1] = "failed"))
    => \A k \in DOMAIN stage : stage[k] # "queued"


\* The host, its last two labels or its last label is on the allow-list.
C34_AllowListed(host) ==
  \/ host \in KNOWN_SAFE_DOMAINS
  \/ (Len(host) >= 2 /\ <<host[Len(host) - 1], host[Len(host)]>> \in KNOWN_SAFE_DOMAINS)
  \/ (Len(host) >= 1 /\ <<host[Len(host)]>> \in KNOWN_SAFE_DOMAINS)

\* C34: step 3 gives a link the trusted-domain verdict (score 1.0, SAFE, no
\* external check, no AI) only if the host of the link's href is on the
\* allow-list, whatever targetDomain the request supplies.
C34_TrustedOnlyByHrefHost ==
  (fn.name = "analyzeLinksWithAI.step3" /\ ret = <<TrustedVerdict>>)
    => (fn.arg.link.href.valid /\ C34_AllowListed(fn.arg.link.href.host))

\* What holds instead: the verdict follows the supplied targetDomain alone.
C34_TrustedByTargetDomain ==
  (fn.name = "analyzeLinksWithAI.step3" /\ ret # << >>)
    => ((ret[1] = TrustedVerdict) <=> C34_AllowListed(fn.arg.link.targetDomain))


\* The aggregate in which no provider was confident: safe, confidence 0.5.
C35_Neutral == checkExternalServices(LnA, ExtNeutral)

\* C35: for one and the same heuristic result, the score computed with an
\* aggregate that reports a threat (safe = false, threatCount >= 1) is never
\* higher than the score computed with the neutral aggregate.
C35_ThreatNeverRaisesScore ==
  (/\ fn.name = "calculateTrustScore" /\ ret # << >>
   /\ ~fn.arg.externalResult.safe /\ fn.arg.externalResult.threatCount >= 1)
    => ret[1] <= calculateTrustScore(fn.arg.heuristics, C35_Neutral)

\* The part of C35 that holds: a threat aggregate whose confidence is 0.5 or
\* more (most confident providers report the URL clean) does not raise the
\* score above the neutral one.
C35_OutvotedThreatNeverRaisesScore ==
  (/\ fn.name = "calculateTrustScore" /\ ret # << >>
   /\ ~fn.arg.externalResult.safe /\ fn.arg.externalResult.threatCount >= 1
   /\ fn.arg.externalResult.confidence >= Pct(50))
    => ret[1] <= calculateTrustScore(fn.arg.heuristics, C35_Neutral)

\* The category and the score range a recommendation forces when the AI
\* verdict is applied.
C36_Forced(r) ==
  /\ r.recommendation = RecSafe
       => (r.category = "SAFE" /\ r.trust_score >= Pct(70))
  /\ r.recommendation = RecCaution
       => (r.category = "SUSPICIOUS" /\ r.trust_score >= Pct(40)
                                     /\ r.trust_score <= Pct(69))
  /\ r.recommendation = RecAvoid
       => (r.category = "DANGEROUS" /\ r.trust_score <= Pct(30))

\* C36: after any sequence of writes to one URL within the TTL, a stored row
\* whose recommendation is SAFE_TO_FOLLOW, CAUTION_ADVISED or AVOID has the
\* category and the score range that recommendation forces.
C36_RecommendationMatchesScore ==
  \A r \in link_scans : LiveNow(r) => C36_Forced(r)

\* What holds instead: a row that only writes carrying an analysis of the
\* local model have reached has the category and score its recommendation
\* forces.
C36_AIWrittenRowsMatch ==
  \A r \in link_scans :
    (/\ LiveNow(r)
     /\ \A c \in Calls :
          (result[c] = "stored" /\ Url(c) = r.url) => arg[c].w = AIWrite)
      => C36_Forced(r)

\* analyzeLinksWithAI has returned and its caller has not yet resumed.
C37_Returning ==
  /\ apc = "returned"
  /\ \E n \in DOMAIN microtasks : microtasks[n][1] = "caller_resume"

\* C37: analyzeLinksWithAI returns an array with exactly one entry per input
\* link, and entry i describes input link i: its link.href equals the href
\* of input i, for marker-filtered links, cache hits, trusted links and
\* analyzed links alike.
C37_EntryPerLinkInOrder ==
  C37_Returning =>
    /\ DOMAIN analyses = Positions
    /\ \A i \in Positions :
         analyses[i] # 0 /\ AnalysisLinkHref(i) = links[i].href

\* What holds instead: the array has the length of the input, and every
\* entry that is neither a cache hit nor left unassigned carries the link
\* of its position.
C37_AnalyzedEntriesInOrder ==
  C37_Returning =>
    /\ DOMAIN analyses = Positions
    /\ \A i \in Positions :
         (analyses[i] # 0 /\ i \notin Filtered \ linksToAnalyze)
           => AnalysisLinkHref(i) = links[i].href

\* The followRecommendation text of the object that step 4 parsed.
C38_Text == ParseResponse(fn.arg.response).obj[1].followRecommendation

\* A model answer was parsed whose recommendation text contains AVOID or
\* DANGER ("unsafe - avoid" also negates safety).
C38_Warns ==
  /\ fn.name = "analyzeSuspiciousLink.step4" /\ ret # << >>
  /\ ret[1].how = "parsed"
  /\ C38_Text \in ContainsAvoidOrDanger

\* C38: the normalization of the model's followRecommendation never maps a
\* recommendation text that contains AVOID or DANGER, or that negates
\* safety, to SAFE_TO_FOLLOW; so such a model answer never raises a verdict
\* to SAFE.
C38_WarningNeverNormalizedToSafe ==
  C38_Warns =>
    /\ ret[1].result.followRecommendation # RecSafe
    /\ \A v \in ScoredVerdicts :
         v.category # "SAFE" => ApplyResult(v, ret[1].result).category # "SAFE"

\* What holds instead: a text that contains AVOID or DANGER and neither
\* SAFE nor FOLLOW is normalized to AVOID, and the verdict becomes
\* DANGEROUS.
C38_PlainWarningIsAvoid ==
  (C38_Warns /\ C38_Text \notin ContainsSafeOrFollow) =>
    /\ ret[1].result.followRecommendation = RecAvoid
    /\ \A v \in ScoredVerdicts : ApplyResult(v, ret[1].result).category = "DANGEROUS"

====
